---- MODULE Spec2Model ----
(***************************************************************************)
(* Generation Orchestration Engine of simplepagegenerator                  *)
(*   backend/app/services/exploration_service.py  exploration sessions,    *)
(*                                                preview cache            *)
(*   backend/app/pipeline/orchestrator.py         chat pipeline            *)
(*   backend/app/services/build_service.py        build validator          *)
(*   backend/app/services/version_service.py      versions                 *)
(* The committed database state is the model state.  A handler that raises *)
(* before its commit leaves the committed state as it was (the request's   *)
(* AsyncSession is closed without commit).                                 *)
(***************************************************************************)
EXTENDS Integers, Sequences, FiniteSets, TLC

\* ------------------------------------------------------------------------
\* Bounds of the model
\* ------------------------------------------------------------------------
MaxSessions == 2
MaxVersions == 3
MaxNotes == 2
MaxIterations == 2
MaxServiceCalls == 3
MaxRuns == 2
MaxToolRounds == 2
MaxRequests == 2
MaxBranches == 7
MaxOptions == 2
MaxMemories == 3
MaxTime == 40
TickStep == 20

\* ------------------------------------------------------------------------
\* Value sets
\* ------------------------------------------------------------------------
ProjectSeq == <<"p1">>
Projects == {ProjectSeq[i] : i \in 1..Len(ProjectSeq)}
OptionIds == {"opt_1", "opt_2"}
ExploreInputs == {"make a game"}
IterateInputs == {"faster", "slower"}
FeelSpecs == {"feelA"}
PreferenceMaps == {"none", "prefA"}

\* Python None for identifiers: ids are positive integers, option ids are
\* non-empty strings.
NoId == 0
NoOption == "null"

\* ------------------------------------------------------------------------
\* Files and contents.  A file set maps every path to a content token or to
\* Absent.  A content token stands for a text; its properties are what the
\* tests of the validator find in the text: html is
\* "<!DOCTYPE html>" in content or "<html" in content, head is
\* "<head" in content, body is "<body" in content, and refs are the matches
\* of the src/href pattern that are no absolute URL, fragment or data URI.
\* HTML_HEADER stands for <html><body><header>h</header></body></html>,
\* a document without head section in which "<head" occurs all the same.
\* ------------------------------------------------------------------------
Paths == {"index.html", "script.js", "style.css"}
Absent == "<absent>"
EmptyText == ""

ContentProps ==
  [ HTML_DEFAULT |-> [html |-> TRUE,  head |-> TRUE,  body |-> TRUE,
                      refs |-> <<"style.css", "script.js">>],
    HTML_OK      |-> [html |-> TRUE,  head |-> TRUE,  body |-> TRUE,
                      refs |-> <<>>],
    HTML_REFS    |-> [html |-> TRUE,  head |-> TRUE,  body |-> TRUE,
                      refs |-> <<"./script.js">>],
    HTML_NOHEAD  |-> [html |-> TRUE,  head |-> FALSE, body |-> TRUE,
                      refs |-> <<>>],
    BODY_ONLY    |-> [html |-> FALSE, head |-> FALSE, body |-> TRUE,
                      refs |-> <<>>],
    HTML_HEADER  |-> [html |-> TRUE,  head |-> TRUE,  body |-> TRUE,
                      refs |-> <<>>],
    HTML_MISSING |-> [html |-> TRUE,  head |-> TRUE,  body |-> TRUE,
                      refs |-> <<"missing.js">>],
    JS           |-> [html |-> FALSE, head |-> FALSE, body |-> FALSE,
                      refs |-> <<>>],
    CSS          |-> [html |-> FALSE, head |-> FALSE, body |-> FALSE,
                      refs |-> <<>>] ]

Props(content) ==
  IF content \in DOMAIN ContentProps
    THEN ContentProps[content]
    ELSE [html |-> FALSE, head |-> FALSE, body |-> FALSE, refs |-> <<>>]

NoFiles == [p \in Paths |-> Absent]

DEFAULT_FILES ==
  [p \in Paths |->
     CASE p = "index.html" -> "HTML_DEFAULT"
       [] p = "script.js"  -> "JS"
       [] p = "style.css"  -> "CSS"]

FilePaths(files) == {p \in Paths : files[p] # Absent}

\* ------------------------------------------------------------------------
\* State
\* ------------------------------------------------------------------------
VARIABLES
  sessions,     \* exploration_sessions rows, indexed by id
  projects,     \* projects rows
  versions,     \* project_versions rows with their project_files, by id
  notes,        \* exploration_memory_notes rows, indexed by id
  preferences,  \* user_preferences: preference map of each project
  response      \* what the last exploration request answered

explorationVars == <<sessions, projects, versions, notes, preferences, response>>

\* Chat pipeline
VARIABLES
  pc,             \* where the running pipeline is
  run_project,    \* project_id of the run
  attempt,        \* loop variable of the validate/fix loop
  updated_files,  \* file set the run is working on
  build_result,   \* result of the last validate_build of the run
  events,         \* events the run has yielded so far
  chat_messages,  \* number of assistant messages the pipeline has stored
  runs,           \* number of runs started
  validations,    \* calls of validate_build in the run
  fix_invocations,\* calls of fix_errors in the run
  tool_rounds,    \* replies with tool calls that the builder or fix stage
                  \* call under way has processed
  run_file_ops,   \* run_pipeline: its variable file_ops
  stubborn        \* the reasoning service of the run answers every builder
                  \* and fix request with further tool calls

pipelineVars ==
  <<pc, run_project, attempt, updated_files, build_result, events,
    chat_messages, runs, validations, fix_invocations, tool_rounds,
    run_file_ops, stubborn>>

\* Preview cache
VARIABLES
  cache,      \* kv_cache rows by cache key; NoEntry where there is no row
  now,        \* wall clock, in minutes
  fix_calls,  \* reasoning-service calls made by fix_preview for each key
              \* since preview_option last stored the entry
  reply,      \* what the last preview request answered
  replaced    \* fix_attempts of the row that the last store of preview_option
              \* wrote over; NotReplaced when it inserted a new row

cacheVars == <<cache, now, fix_calls, reply, replaced>>

\* An explore request under way, stage by stage
VARIABLES
  explore_stage,  \* "idle", or where the request is: "A", "memory", "B", "C"
  explore_args,   \* project_id and user_input of the request
  rounds,         \* _call_openai_with_tools: its variable rounds
  service_calls,  \* _call_openai_with_tools: calls of the reasoning service
                  \* made by the stage call under way
  msg_tool_calls, \* _call_openai_with_tools: the last reply has tool calls
  memory_raised   \* a memory lookup of the request raised

stageVars ==
  <<explore_stage, explore_args, rounds, service_calls, msg_tool_calls,
    memory_raised>>

\* Chat requests of routers/chat.py send_message that run concurrently
VARIABLES
  requests,  \* the requests: where each is, and what it has read
  locks      \* _project_locks: the request that holds the lock of a project,
             \* NoId when it is free

lockVars == <<requests, locks>>

\* Calls of the pure functions: validate_build, _search_memory_for_tool,
\* synthesize_branches, map_options
VARIABLES
  call_args,    \* the function called last and its arguments
  call_result   \* what it returned

callVars == <<call_args, call_result>>

\* Project memories (memory_service.py)
VARIABLES
  memories  \* project_memories rows, indexed by id; a deleted row leaves
            \* its id behind

memoryVars == <<memories>>

\* finish_exploration requests that run concurrently
VARIABLES
  preference_rows,  \* user_preferences rows, indexed by id
  finishing         \* the requests: where each is, and the row it selected

finishVars == <<preference_rows, finishing>>

\* Exploration requests that run concurrently
VARIABLES
  iterating,   \* the iterate requests: where each is and what it has loaded
  fixing,      \* the fix_preview requests, likewise
  previewing   \* the preview_option requests, likewise

raceVars == <<iterating, fixing, previewing>>

vars ==
  <<explorationVars, pipelineVars, cacheVars, stageVars, lockVars, callVars,
    memoryVars, finishVars, raceVars>>

\* What the requests of one part of the program leave alone.
outsideExploration ==
  <<pipelineVars, cacheVars, stageVars, lockVars, callVars, memoryVars,
    finishVars, raceVars>>
outsidePipeline ==
  <<cacheVars, stageVars, lockVars, callVars, memoryVars, finishVars, raceVars>>
outsideCache ==
  <<explorationVars, pipelineVars, stageVars, lockVars, callVars, memoryVars,
    finishVars, raceVars>>
outsidePreview ==
  <<pipelineVars, stageVars, lockVars, callVars, memoryVars, finishVars, raceVars>>
outsideStages ==
  <<pipelineVars, cacheVars, lockVars, callVars, memoryVars, finishVars, raceVars>>
outsideLock ==
  <<pipelineVars, cacheVars, stageVars, callVars, memoryVars, finishVars, raceVars>>
outsideMemories ==
  <<explorationVars, pipelineVars, cacheVars, stageVars, lockVars, callVars,
    finishVars, raceVars>>
outsideCalls ==
  <<explorationVars, pipelineVars, cacheVars, stageVars, lockVars,
    memoryVars, finishVars, raceVars>>
outsideFinish ==
  <<pipelineVars, cacheVars, stageVars, lockVars, callVars, memoryVars,
    raceVars>>
outsideIterating ==
  <<pipelineVars, cacheVars, stageVars, lockVars, callVars, memoryVars,
    finishVars, fixing, previewing>>
outsidePreviewing ==
  <<explorationVars, pipelineVars, stageVars, lockVars, callVars, memoryVars,
    finishVars, iterating>>

NullLedger ==
  [isNull |-> TRUE, validated |-> <<>>, rejected |-> <<>>,
   open_questions |-> <<>>, feel_spec |-> "none"]

SessionIds == 1..Len(sessions)

\* ProjectVersion(project_id, build_status, build_log) with its files;
\* source and session record the operation that created the row.
ProjectVersion(p, status, log, files, src, sid) ==
  [project_id |-> p, build_status |-> status, build_log |-> log,
   files |-> files, source |-> src, session |-> sid]

\* build_log None
NoLog == <<>>

\* project_service.create_project: a project starts with a version holding
\* DEFAULT_FILES, which is its current version.
create_project(p) ==
  ProjectVersion(p, "success", NoLog, DEFAULT_FILES, "create_project", NoId)

ExplorationInit ==
  /\ sessions = <<>>
  /\ versions = [i \in 1..Len(ProjectSeq) |-> create_project(ProjectSeq[i])]
  /\ projects = [p \in Projects |->
                   [current_version_id |->
                      CHOOSE i \in 1..Len(ProjectSeq) : ProjectSeq[i] = p,
                    status |-> "draft"]]
  /\ notes = <<>>
  /\ preferences = [p \in Projects |-> "none"]
  /\ response = "none"

\* ------------------------------------------------------------------------
\* Exploration flow (exploration_service.py)
\* ------------------------------------------------------------------------
\* A request that raised after its flush and whose flushed version row
\* stays in the database.
Rejected_FlushKept(error) ==
  /\ response' = error
  /\ versions' = IF Len(versions) < MaxVersions
                   THEN Append(versions,
                          ProjectVersion(ProjectSeq[1], "success", <<>>,
                            [p \in Paths |-> Absent], "select_option", 0))
                   ELSE versions
  /\ UNCHANGED <<sessions, projects, notes, preferences>>

\* A request that raised before its commit: nothing is committed.
Rejected(error) ==
  /\ response' = error
  /\ UNCHANGED <<sessions, projects, versions, notes, preferences>>

\* The reasoning service raised, or its reply could not be used.
ServiceError == "service error"

ExplorationSession(p, user_input, opts) ==
  [project_id |-> p, user_input |-> user_input, state |-> "explore_options",
   selected_option_id |-> NoOption, hypothesis_ledger |-> NullLedger,
   iteration_count |-> 0, options |-> opts]

ExplorationMemoryNote(p, sid, vid, writer) ==
  [project_id |-> p, source_session_id |-> sid, source_version_id |-> vid,
   writer |-> writer]

\* explore: stages A, B, C, then the session and its options are persisted.
\* opts is the set of option ids the Map stage returned.
explore(p, user_input, opts, serviceOk) ==
  IF ~serviceOk
    THEN Rejected(ServiceError)
    ELSE /\ Len(sessions) < MaxSessions
         /\ sessions' = Append(sessions, ExplorationSession(p, user_input, opts))
         /\ response' = "ok"
         /\ UNCHANGED <<projects, versions, notes, preferences>>

\* select_option, the files of the generated version.
GeneratedFiles(html) ==
  IF html # EmptyText THEN [NoFiles EXCEPT !["index.html"] = html] ELSE NoFiles

\* select_option that records the option but leaves the state as it was.
SelectedSession_KeepState(session, option_id, feel_spec) ==
  [session EXCEPT
     !.selected_option_id = option_id,
     !.hypothesis_ledger =
        [isNull |-> FALSE, validated |-> <<>>, rejected |-> <<>>,
         open_questions |-> <<>>, feel_spec |-> feel_spec]]

\* select_option that starts the iteration counter again.
SelectedSession_ResetCount(session, option_id, feel_spec) ==
  [session EXCEPT
     !.selected_option_id = option_id,
     !.state = "committed",
     !.iteration_count = 0,
     !.hypothesis_ledger =
        [isNull |-> FALSE, validated |-> <<>>, rejected |-> <<>>,
         open_questions |-> <<>>, feel_spec |-> feel_spec]]

\* select_option, the session row after the call.
SelectedSession(session, option_id, feel_spec) ==
  [session EXCEPT
     !.selected_option_id = option_id,
     !.state = "committed",
     !.hypothesis_ledger =
        [isNull |-> FALSE, validated |-> <<>>, rejected |-> <<>>,
         open_questions |-> <<>>, feel_spec |-> feel_spec]]

select_option(p, sid, option_id, feel_spec, html, serviceOk) ==
  IF sid \notin SessionIds THEN Rejected("Session not found")
  ELSE IF ~serviceOk THEN Rejected(ServiceError)
    ELSE /\ Len(versions) < MaxVersions
         /\ Len(notes) < MaxNotes
         /\ versions' = Append(versions,
               ProjectVersion(p, "success", NoLog, GeneratedFiles(html),
                              "select_option", sid))
         /\ projects' = [projects EXCEPT
               ![p] = [current_version_id |-> Len(versions) + 1,
                       status |-> "running"]]
         /\ sessions' = [sessions EXCEPT
               ![sid] = SelectedSession(sessions[sid], option_id, feel_spec)]
         /\ notes' = Append(notes,
               ExplorationMemoryNote(p, sid, Len(versions) + 1, "select_option"))
         /\ response' = "ok"
         /\ UNCHANGED preferences

\* iterate that also writes the paths only the reply names.
IteratedFiles_ReplyPaths(files, modifications) ==
  [fp \in Paths |->
     IF modifications[fp] # Absent THEN modifications[fp] ELSE files[fp]]

\* iterate, the files of the new version: every current path, with the
\* content of the reply where the reply names the path.
IteratedFiles(files, modifications) ==
  [fp \in Paths |->
     IF files[fp] # Absent /\ modifications[fp] # Absent
       THEN modifications[fp] ELSE files[fp]]

\* iterate, the ledger after the call.  A ledger already stored is the
\* loaded dict, appended to in place and assigned back; whether the ORM
\* writes such an in-place change of a JSONB value is decided outside the
\* repository (tracked).  A null ledger is replaced by a new dict.
IteratedLedger(ledger, user_input, tracked) ==
  IF ledger.isNull
    THEN [isNull |-> FALSE, validated |-> <<>>, rejected |-> <<>>,
          open_questions |-> <<user_input>>, feel_spec |-> "none"]
    ELSE IF tracked
      THEN [ledger EXCEPT !.open_questions = Append(@, user_input)]
      ELSE ledger

\* iterate, the session row after the call.
IteratedSession(session, user_input, tracked) ==
  [session EXCEPT
     !.iteration_count = @ + 1,
     !.state = "iterating",
     !.hypothesis_ledger = IteratedLedger(@, user_input, tracked)]

iterate(p, sid, user_input, modifications, tracked, serviceOk) ==
  IF sid \notin SessionIds THEN Rejected("Session not found")
  ELSE IF projects[p].current_version_id = NoId
    THEN Rejected("No current version")
  ELSE IF ~serviceOk THEN Rejected(ServiceError)
    ELSE /\ Len(versions) < MaxVersions
         /\ sessions[sid].iteration_count < MaxIterations
         /\ versions' = Append(versions,
               ProjectVersion(p, "success", NoLog,
                 IteratedFiles(versions[projects[p].current_version_id].files,
                               modifications),
                 "iterate", sid))
         /\ projects' = [projects EXCEPT
               ![p].current_version_id = Len(versions) + 1]
         /\ sessions' = [sessions EXCEPT
               ![sid] = IteratedSession(sessions[sid], user_input, tracked)]
         /\ response' = "ok"
         /\ UNCHANGED <<notes, preferences>>

\* finish_exploration, the session row after the call.
FinishedSession(session) == [session EXCEPT !.state = "stable"]

\* finish_exploration that writes no note.
FinishedNotes_NoNote(p, sid) == notes

\* finish_exploration, the notes after the call.
FinishedNotes(p, sid) ==
  Append(notes,
    ExplorationMemoryNote(p, sid, projects[p].current_version_id,
                          "finish_exploration"))

finish_exploration(p, sid, user_preferences, serviceOk) ==
  IF sid \notin SessionIds THEN Rejected("Session not found")
  ELSE IF ~serviceOk THEN Rejected(ServiceError)
    ELSE /\ Len(notes) < MaxNotes
         /\ notes' = FinishedNotes(p, sid)
         /\ preferences' =
               IF user_preferences # "none"
                 THEN [preferences EXCEPT ![p] = user_preferences]
                 ELSE preferences
         /\ sessions' = [sessions EXCEPT ![sid] = FinishedSession(sessions[sid])]
         /\ response' = "ok"
         /\ UNCHANGED <<projects, versions>>

\* A create_version that leaves the project's pointer where it was.
create_version_NoPointer(p, files, build_status, build_log, caller) ==
  /\ versions' = Append(versions,
        ProjectVersion(p, build_status, build_log, files, caller, NoId))
  /\ UNCHANGED projects

\* version_service.create_version: the version, its files and the project's
\* current_version_id in one commit.  caller names the operation that
\* called it.
create_version(p, files, build_status, build_log, caller) ==
  /\ versions' = Append(versions,
        ProjectVersion(p, build_status, build_log, files, caller, NoId))
  /\ projects' = [projects EXCEPT ![p].current_version_id = Len(versions) + 1]

\* version_service.rollback_to_version: a new version with the files of
\* version_id.  The route answers 404 for None.
rollback_to_version(p, version_id) ==
  IF version_id \notin 1..Len(versions)
       \/ versions[version_id].project_id # p
    THEN Rejected("Version not found")
    ELSE /\ Len(versions) < MaxVersions
         /\ create_version(p, versions[version_id].files, "success",
                           <<"Rollback from version " \o ToString(version_id)>>,
                           "rollback_to_version")
         /\ response' = "ok"
         /\ UNCHANGED <<sessions, notes, preferences>>

\* Replies of the reasoning service that the requests below draw from; a
\* call that raised has no reply.
MappedOptions == {{"opt_1"}, OptionIds}
GeneratedHtml == {EmptyText, "HTML_OK"}
Replies(S, serviceOk) == IF serviceOk THEN S ELSE {CHOOSE x \in S : TRUE}
IterateReplies ==
  { NoFiles,
    [NoFiles EXCEPT !["index.html"] = "HTML_NOHEAD"] }

Explore ==
  /\ \E p \in Projects, u \in ExploreInputs, serviceOk \in BOOLEAN :
       \E opts \in Replies(MappedOptions, serviceOk) :
         explore(p, u, opts, serviceOk)
  /\ UNCHANGED outsideExploration

SelectOption ==
  /\ \E p \in Projects, sid \in 1..MaxSessions, o \in OptionIds,
        serviceOk \in BOOLEAN :
       \E f \in Replies(FeelSpecs, serviceOk),
          html \in Replies(GeneratedHtml, serviceOk) :
         select_option(p, sid, o, f, html, serviceOk)
  /\ UNCHANGED outsideExploration

Iterate ==
  /\ \E p \in Projects, sid \in 1..MaxSessions, u \in IterateInputs,
        serviceOk \in BOOLEAN :
       \E m \in Replies(IterateReplies, serviceOk),
          tracked \in Replies(BOOLEAN, serviceOk) :
         iterate(p, sid, u, m, tracked, serviceOk)
  /\ UNCHANGED outsideExploration

FinishExploration ==
  /\ \E p \in Projects, sid \in 1..MaxSessions, serviceOk \in BOOLEAN :
       \E prefs \in Replies(PreferenceMaps, serviceOk) :
         finish_exploration(p, sid, prefs, serviceOk)
  /\ UNCHANGED outsideExploration

Rollback ==
  /\ \E p \in Projects, version_id \in 1..MaxVersions :
       rollback_to_version(p, version_id)
  /\ UNCHANGED outsideExploration

\* ------------------------------------------------------------------------
\* The exploration requests with two projects: the project id comes from
\* the path of the request and the session id from its body
\* (routers/exploration.py), so a request can pair any project with any
\* session.
\* ------------------------------------------------------------------------
ProjectPair == <<"p1", "p2">>

PairExplorationInit ==
  /\ sessions = <<>>
  /\ versions = [i \in 1..Len(ProjectPair) |-> create_project(ProjectPair[i])]
  /\ projects = [p \in {ProjectPair[i] : i \in 1..Len(ProjectPair)} |->
                   [current_version_id |->
                      CHOOSE i \in 1..Len(ProjectPair) : ProjectPair[i] = p,
                    status |-> "draft"]]
  /\ notes = <<>>
  /\ preferences = [p \in DOMAIN projects |-> "none"]
  /\ response = "none"

PairExplore ==
  /\ \E p \in DOMAIN projects, u \in ExploreInputs, serviceOk \in BOOLEAN :
       \E opts \in Replies(MappedOptions, serviceOk) :
         explore(p, u, opts, serviceOk)
  /\ UNCHANGED outsideExploration

PairSelectOption ==
  /\ \E p \in DOMAIN projects, sid \in 1..MaxSessions, o \in OptionIds,
        serviceOk \in BOOLEAN :
       \E f \in Replies(FeelSpecs, serviceOk),
          html \in Replies(GeneratedHtml, serviceOk) :
         select_option(p, sid, o, f, html, serviceOk)
  /\ UNCHANGED outsideExploration

PairIterate ==
  /\ \E p \in DOMAIN projects, sid \in 1..MaxSessions, u \in IterateInputs,
        serviceOk \in BOOLEAN :
       \E m \in Replies(IterateReplies, serviceOk),
          tracked \in Replies(BOOLEAN, serviceOk) :
         iterate(p, sid, u, m, tracked, serviceOk)
  /\ UNCHANGED outsideExploration

PairFinishExploration ==
  /\ \E p \in DOMAIN projects, sid \in 1..MaxSessions,
        serviceOk \in BOOLEAN :
       \E prefs \in Replies(PreferenceMaps, serviceOk) :
         finish_exploration(p, sid, prefs, serviceOk)
  /\ UNCHANGED outsideExploration

\* ------------------------------------------------------------------------
\* explore, stage by stage: Decompose (A) and Branch (B) go through
\* _call_openai_with_tools, Map (C) through _call_openai_json, and the
\* session and its options are persisted after stage C.
\* ------------------------------------------------------------------------
MAX_TOOL_ROUNDS == 3

StageInit ==
  /\ explore_stage = "idle"
  /\ explore_args = [project_id |-> ProjectSeq[1], user_input |-> ""]
  /\ rounds = 0
  /\ service_calls = 0
  /\ msg_tool_calls = FALSE
  /\ memory_raised = FALSE

\* The request failed in a stage: nothing has been persisted.
StageFailed ==
  /\ explore_stage' = "idle"
  /\ Rejected(ServiceError)
  /\ UNCHANGED <<explore_args, rounds, service_calls, msg_tool_calls,
                 memory_raised>>

\* explore is called and enters decompose_requirements.
BeginExplore(p, user_input) ==
  /\ explore_stage = "idle"
  /\ Len(sessions) < MaxSessions
  /\ explore_stage' = "A"
  /\ explore_args' = [project_id |-> p, user_input |-> user_input]
  /\ rounds' = 0
  /\ service_calls' = 0
  /\ msg_tool_calls' = FALSE
  /\ memory_raised' = FALSE
  /\ UNCHANGED explorationVars

\* _call_openai_with_tools, the first call with tools.
FirstCall(raised, tool_calls) ==
  /\ explore_stage \in {"A", "B"}
  /\ service_calls = 0
  /\ service_calls' = 1
  /\ UNCHANGED memory_raised
  /\ IF raised
       THEN /\ explore_stage' = "idle"
            /\ Rejected(ServiceError)
            /\ UNCHANGED <<explore_args, rounds, msg_tool_calls>>
       ELSE /\ msg_tool_calls' = tool_calls
            /\ UNCHANGED <<explore_stage, explore_args, rounds, explorationVars>>

\* A loop that admits one more round.
RoundAllowed_OneMore(r) == r <= MAX_TOOL_ROUNDS

\* while msg.tool_calls and rounds < 3
RoundAllowed(r) == r < MAX_TOOL_ROUNDS

\* One pass of the while loop: the tool calls are executed (json.loads of
\* their arguments may raise, and so may the memory search) and the
\* conversation is continued.  An exception is logged and raised again by
\* the except clause of the call.
ToolRound(outcome, tool_calls) ==
  /\ explore_stage \in {"A", "B"}
  /\ service_calls > 0
  /\ msg_tool_calls /\ RoundAllowed(rounds)
  /\ rounds' = rounds + 1
  /\ memory_raised' = (memory_raised \/ outcome = "memory_raise")
  /\ CASE outcome \in {"arguments_raise", "memory_raise"} ->
             /\ explore_stage' = "idle"
             /\ Rejected(ServiceError)
             /\ UNCHANGED <<explore_args, service_calls, msg_tool_calls>>
       [] outcome = "call_raise" ->
             /\ service_calls' = service_calls + 1
             /\ explore_stage' = "idle"
             /\ Rejected(ServiceError)
             /\ UNCHANGED <<explore_args, msg_tool_calls>>
       [] outcome = "reply" ->
             /\ service_calls' = service_calls + 1
             /\ msg_tool_calls' = tool_calls
             /\ UNCHANGED <<explore_stage, explore_args, explorationVars>>

\* After the loop: the content of the last reply is parsed and returned,
\* and explore goes on to the next stage.
EndCall(parsed) ==
  /\ explore_stage \in {"A", "B"}
  /\ service_calls > 0
  /\ ~(msg_tool_calls /\ RoundAllowed(rounds))
  /\ IF ~parsed
       THEN StageFailed
       ELSE /\ explore_stage' = IF explore_stage = "A" THEN "memory" ELSE "C"
            /\ rounds' = 0
            /\ service_calls' = 0
            /\ msg_tool_calls' = FALSE
            /\ UNCHANGED <<explore_args, memory_raised, explorationVars>>

\* explore, between the stages A and B:
\* memory_ctx = await get_memory_context(db, project_id), with no handler
\* around it.
GetMemoryContext(raised) ==
  /\ explore_stage = "memory"
  /\ IF raised
       THEN /\ explore_stage' = "idle"
            /\ memory_raised' = TRUE
            /\ Rejected(ServiceError)
            /\ UNCHANGED <<explore_args, rounds, service_calls, msg_tool_calls>>
       ELSE /\ explore_stage' = "B"
            /\ UNCHANGED <<explore_args, rounds, service_calls, msg_tool_calls,
                           memory_raised, explorationVars>>

\* Stage C and the persist step.
MapAndPersist(opts, serviceOk) ==
  /\ explore_stage = "C"
  /\ explore(explore_args.project_id, explore_args.user_input, opts, serviceOk)
  /\ explore_stage' = "idle"
  /\ UNCHANGED <<explore_args, rounds, service_calls, msg_tool_calls,
                 memory_raised>>

StageBegin ==
  /\ \E p \in Projects, u \in ExploreInputs : BeginExplore(p, u)
  /\ UNCHANGED outsideStages
StageFirstCall ==
  /\ \E raised \in BOOLEAN, tool_calls \in BOOLEAN : FirstCall(raised, tool_calls)
  /\ UNCHANGED outsideStages
StageToolRound ==
  /\ \E outcome \in {"arguments_raise", "memory_raise", "call_raise", "reply"},
        tool_calls \in BOOLEAN : ToolRound(outcome, tool_calls)
  /\ UNCHANGED outsideStages
StageEndCall ==
  /\ \E parsed \in BOOLEAN : EndCall(parsed)
  /\ UNCHANGED outsideStages
StageGetMemoryContext ==
  /\ \E raised \in BOOLEAN : GetMemoryContext(raised)
  /\ UNCHANGED outsideStages
StageMapAndPersist ==
  /\ \E serviceOk \in BOOLEAN : \E opts \in Replies(MappedOptions, serviceOk) :
       MapAndPersist(opts, serviceOk)
  /\ UNCHANGED outsideStages

\* ------------------------------------------------------------------------
\* Stage B and stage C as functions of the reply of the reasoning service
\* ------------------------------------------------------------------------
\* The open dimensions of a decomposition.  A branch is given by the number
\* of values it assigns to each dimension.
Dimensions == {"genre", "controls"}
BranchShapes ==
  { [d \in Dimensions |-> 1],
    [d \in Dimensions |-> IF d = "genre" THEN 0 ELSE 1],
    [d \in Dimensions |-> IF d = "genre" THEN 2 ELSE 1] }

RECURSIVE SeqsUpTo(_, _)
SeqsUpTo(S, n) ==
  IF n = 0 THEN {<<>>}
  ELSE LET shorter == SeqsUpTo(S, n - 1) IN
         shorter \cup {Append(q, x) : q \in shorter, x \in S}

\* Lists of branches a reply can hold: every list of up to 3 branches, and
\* the lists of up to MaxBranches equal branches.
BranchLists ==
  SeqsUpTo(BranchShapes, 3)
    \cup {[i \in 1..n |-> b] : n \in 4..MaxBranches, b \in BranchShapes}

\* The parsed reply of stage B: a dict with or without the key "branches",
\* a list, or another JSON value.
BranchReplies ==
  {[kind |-> k, branches |-> l] : k \in {"dict", "list"}, l \in BranchLists}
    \cup {[kind |-> k, branches |-> <<>>] : k \in {"dict_other", "other"}}

\* synthesize_branches, after the call: what it returns for a parsed reply.
\* explore hands the returned list to map_options as it is.
synthesize_branches(result) ==
  IF result.kind = "dict" THEN result.branches
  ELSE IF result.kind = "list" THEN result.branches
  ELSE <<>>

SynthesizeBranches(result) ==
  /\ call_args' = [fn |-> "synthesize_branches", result |-> result]
  /\ call_result' = [fn |-> "synthesize_branches",
                     value |-> synthesize_branches(result)]

CallSynthesizeBranches ==
  /\ \E result \in BranchReplies : SynthesizeBranches(result)
  /\ UNCHANGED outsideCalls

\* An option of a stage C reply: its option_id, and its is_recommended key
\* (has_flag: the key is there).
ReplyOption(option_id, has_flag, is_recommended) ==
  [option_id |-> option_id, has_flag |-> has_flag,
   is_recommended |-> is_recommended]

ReplyOptions ==
  {ReplyOption(o, h, f) : o \in OptionIds, h \in BOOLEAN, f \in BOOLEAN}
    \ {ReplyOption(o, FALSE, TRUE) : o \in OptionIds}

\* The parsed reply of stage C: a dict with options and, or without,
\* recommended_option_id ("opt_9" names no option of the reply).
MapReplies ==
  {[options |-> l, recommended_option_id |-> r] :
     l \in SeqsUpTo(ReplyOptions, MaxOptions) \ {<<>>},
     r \in OptionIds \cup {"opt_9", NoOption}}

\* map_options, after the call: the options with the recommended one marked
\* when the reply names one.
map_options(result) ==
  IF result.recommended_option_id # NoOption
    THEN [i \in DOMAIN result.options |->
            ReplyOption(result.options[i].option_id, TRUE,
                        result.options[i].option_id
                          = result.recommended_option_id)]
    ELSE result.options

\* explore, persist: is_recommended=opt.get("is_recommended", False)
PersistedOptions(options) ==
  [i \in DOMAIN options |->
     [option_id |-> options[i].option_id,
      is_recommended |-> options[i].has_flag /\ options[i].is_recommended]]

MapOptions(result) ==
  /\ call_args' = [fn |-> "map_options", result |-> result]
  /\ call_result' = [fn |-> "map_options",
                     value |-> PersistedOptions(map_options(result))]

CallMapOptions ==
  /\ \E result \in MapReplies : MapOptions(result)
  /\ UNCHANGED outsideCalls

\* ------------------------------------------------------------------------
\* The memory search of a tool call (_search_memory_for_tool)
\* ------------------------------------------------------------------------
\* A stored note as the search reads it: the type of its content_json and
\* the query terms that occur in its JSON text.
SearchTerms == {"runner", "tap"}
NoteTypes == {"design_decision", "exploration_finish"}
StoredNotes == {[type |-> t, terms |-> {w}] : t \in NoteTypes, w \in SearchTerms}
FilterTypes == NoteTypes \cup {"all"}

\* The sentinel
NoRelevantMemories == "No relevant memories found for this project."

\* for note in notes: the notes that pass the type filter and hold a term
\* of the query, or all that pass the filter when the query has no term.
KeywordMatched(stored, query, filter_type) ==
  SelectSeq(stored,
    LAMBDA note :
      /\ filter_type = "all" \/ note.type = filter_type
      /\ (note.terms \cap query # {}) \/ query = {})

\* if not matched: all notes, filtered by type.
Matched(stored, query, filter_type) ==
  IF KeywordMatched(stored, query, filter_type) # <<>>
    THEN KeywordMatched(stored, query, filter_type)
    ELSE SelectSeq(stored,
           LAMBDA note : filter_type = "all" \/ note.type = filter_type)

\* The returned text: the sentinel when there are no parts, and otherwise
\* the preferences (when the project has a row) and an entry per matched
\* note.
search_memory_for_tool(stored, pref, query, filter_type) ==
  LET matched == Matched(stored, query, filter_type) IN
    IF ~pref /\ matched = <<>>
      THEN [text |-> NoRelevantMemories, preferences |-> FALSE,
            entries |-> <<>>]
      ELSE [text |-> "parts", preferences |-> pref, entries |-> matched]

SearchMemory(stored, pref, query, filter_type) ==
  /\ call_args' = [fn |-> "_search_memory_for_tool", stored |-> stored,
                   pref |-> pref, query |-> query,
                   filter_type |-> filter_type]
  /\ call_result' = [fn |-> "_search_memory_for_tool",
                     value |-> search_memory_for_tool(stored, pref, query,
                                                      filter_type)]

CallSearchMemory ==
  /\ \E stored \in SeqsUpTo(StoredNotes, MaxNotes), pref \in BOOLEAN,
        query \in SUBSET SearchTerms, filter_type \in FilterTypes :
       SearchMemory(stored, pref, query, filter_type)
  /\ UNCHANGED outsideCalls

\* ------------------------------------------------------------------------
\* User feel profile (feel_defaults.py)
\* ------------------------------------------------------------------------
\* A stored note as the aggregation reads it: the movement model of its
\* feel_spec (accel 0 also stands for a feel_spec without movement model:
\* mm.get("accel", 0)) and tuning.default_preset ("" when there is none).
Drags == {80, 90, 100, 190}
Accels == {0, 100, 200}
Presets == {"", "tight", "relaxed"}
FeelNotes ==
  [movement_model : [accel : Accels, drag : Drags], default_preset : Presets]

None == "None"

\* drag / accel, in thousandths (exact for Drags and Accels)
DragRatio(mm) == (mm.drag * 1000) \div mm.accel

\* drag_ratios: the ratios of the notes whose accel is > 0, in note order
RECURSIVE DragRatios(_)
DragRatios(stored) ==
  IF stored = <<>> THEN <<>>
  ELSE (IF Head(stored).movement_model.accel > 0
          THEN <<DragRatio(Head(stored).movement_model)>> ELSE <<>>)
       \o DragRatios(Tail(stored))

RECURSIVE Sum(_)
Sum(ratios) == IF ratios = <<>> THEN 0 ELSE Head(ratios) + Sum(Tail(ratios))

\* A tight test that excludes the boundary.
IsTight_Above(ratios) == Sum(ratios) > 850 * Len(ratios)

\* avg_ratio >= 0.85, with avg_ratio = sum(drag_ratios) / len(drag_ratios)
IsTight(ratios) == Sum(ratios) >= 850 * Len(ratios)

\* avg_ratio <= 0.5
IsFloaty(ratios) == Sum(ratios) <= 500 * Len(ratios)

\* preset_votes, and max(preset_votes, key=preset_votes.get): the preset
\* with the most votes, the one voted first among equals (dict order).
PresetVotes(stored, p) ==
  Len(SelectSeq(stored, LAMBDA note : note.default_preset = p))

FirstVote(stored, p) ==
  CHOOSE i \in DOMAIN stored :
    /\ stored[i].default_preset = p
    /\ \A j \in 1..(i - 1) : stored[j].default_preset # p

Voted(stored) == {stored[i].default_preset : i \in DOMAIN stored} \ {""}

PreferredPreset(stored) ==
  CHOOSE p \in Voted(stored) :
    \A q \in Voted(stored) \ {p} :
      \/ PresetVotes(stored, p) > PresetVotes(stored, q)
      \/ /\ PresetVotes(stored, p) = PresetVotes(stored, q)
         /\ FirstVote(stored, p) < FirstVote(stored, q)

\* The style_tendency and the preferred preset of the returned profile.
aggregate_user_feel_profile(stored) ==
  LET drag_ratios == DragRatios(stored)
      from_ratio ==
        IF drag_ratios = <<>> THEN None
        ELSE IF IsTight(drag_ratios) THEN "tight"
        ELSE IF IsFloaty(drag_ratios) THEN "floaty"
        ELSE "arcade"
  IN [style_tendency |->
        IF Voted(stored) # {} /\ from_ratio = None
          THEN PreferredPreset(stored) ELSE from_ratio,
      preferred_preset |->
        IF Voted(stored) # {} THEN PreferredPreset(stored) ELSE None]

AggregateFeel(stored) ==
  /\ call_args' = [fn |-> "aggregate_user_feel_profile", notes |-> stored]
  /\ call_result' = [fn |-> "aggregate_user_feel_profile",
                     value |-> aggregate_user_feel_profile(stored)]

CallAggregateFeel ==
  /\ \E stored \in SeqsUpTo(FeelNotes, MaxNotes) : AggregateFeel(stored)
  /\ UNCHANGED outsideCalls

\* ------------------------------------------------------------------------
\* Build validator (build_service.py)
\* ------------------------------------------------------------------------
validate_html(content) ==
  (IF ~Props(content).html
     THEN <<"Missing <!DOCTYPE html> or <html> tag">> ELSE <<>>)
  \o (IF ~Props(content).head THEN <<"Missing <head> section">> ELSE <<>>)
  \o (IF ~Props(content).body THEN <<"Missing <body> section">> ELSE <<>>)

\* ref.lstrip("./") on the references that occur in ContentProps
lstrip_dot_slash(ref) == IF ref = "./script.js" THEN "script.js" ELSE ref

RECURSIVE ReferenceErrors(_, _)
ReferenceErrors(refs, available) ==
  IF refs = <<>> THEN <<>>
  ELSE LET ref == Head(refs)
           clean == lstrip_dot_slash(ref)
       IN (IF clean # EmptyText /\ clean \notin available
             THEN <<"Referenced file not found: " \o ref>> ELSE <<>>)
          \o ReferenceErrors(Tail(refs), available)

check_file_references(html_content, available_files) ==
  ReferenceErrors(Props(html_content).refs, available_files)

\* BuildResult(success, errors); the warnings are read by no caller.
validate_build(files) ==
  LET errors ==
        IF files["index.html"] # Absent
          THEN validate_html(files["index.html"])
               \o check_file_references(files["index.html"], FilePaths(files))
          ELSE <<"Missing index.html">>
  IN [success |-> Len(errors) = 0, errors |-> errors]

\* The file maps the validator is called with.
Contents == DOMAIN ContentProps \cup {EmptyText}
FileMaps == [Paths -> Contents \cup {Absent}]

\* A call of validate_build.
ValidateBuild(files) ==
  /\ call_args' = [fn |-> "validate_build", files |-> files]
  /\ call_result' = [fn |-> "validate_build", value |-> validate_build(files)]

CallValidateBuild ==
  /\ \E files \in FileMaps : ValidateBuild(files)
  /\ UNCHANGED outsideCalls

\* The file sets iterate finds as the current version (files_context) and
\* the replies of the Iterate stage: a map from paths to new contents.
CurrentFileMaps ==
  {files \in FileMaps : \A fp \in Paths : files[fp] \in {Absent, DEFAULT_FILES[fp]}}
IterateFileReplies == [Paths -> {Absent, EmptyText, "HTML_NOHEAD"}]

\* iterate, from files_context and the reply to the files of new_version.
IterateFiles(files, modifications) ==
  /\ call_args' = [fn |-> "iterate", files |-> files,
                   modifications |-> modifications]
  /\ call_result' = [fn |-> "iterate",
                     value |-> IteratedFiles(files, modifications)]

CallIterateFiles ==
  /\ \E files \in CurrentFileMaps, modifications \in IterateFileReplies :
       IterateFiles(files, modifications)
  /\ UNCHANGED outsideCalls

\* ------------------------------------------------------------------------
\* Chat pipeline (orchestrator.py run_pipeline, driven by routers/chat.py)
\* ------------------------------------------------------------------------
MAX_FIX_RETRIES == 3

WriteOp(path, content) == [action |-> "write", file_path |-> path, content |-> content]
DeleteOp(path) == [action |-> "delete", file_path |-> path, content |-> Absent]

RECURSIVE apply_file_ops(_, _)
apply_file_ops(current_files, file_ops) ==
  IF file_ops = <<>> THEN current_files
  ELSE LET op == Head(file_ops)
           files_map ==
             IF op.action = "write"
               THEN [current_files EXCEPT ![op.file_path] = op.content]
             ELSE IF op.action = "delete"
               THEN [current_files EXCEPT ![op.file_path] = Absent]
             ELSE current_files
       IN apply_file_ops(files_map, Tail(file_ops))

NoResult == [success |-> FALSE, errors |-> <<>>]

SseEvent(event, stage, success, errors, version_id) ==
  [event |-> event, stage |-> stage, success |-> success, errors |-> errors,
   version_id |-> version_id]
sse_stage_change(stage) == SseEvent("stage_change", stage, FALSE, <<>>, NoId)
sse_token == SseEvent("token", "", FALSE, <<>>, NoId)
sse_build_status(success, errors) ==
  SseEvent("build_status", "", success, errors, NoId)
sse_tool_call == SseEvent("tool_call", "", FALSE, <<>>, NoId)
sse_error == SseEvent("error", "", FALSE, <<>>, NoId)
sse_done(version_id) == SseEvent("done", "", FALSE, <<>>, version_id)

PipelineInit ==
  /\ pc = "idle"
  /\ run_project = ProjectSeq[1]
  /\ attempt = 0
  /\ updated_files = NoFiles
  /\ build_result = NoResult
  /\ events = <<>>
  /\ chat_messages = 0
  /\ runs = 0
  /\ validations = 0
  /\ fix_invocations = 0
  /\ tool_rounds = 0
  /\ stubborn = FALSE
  /\ run_file_ops = <<>>

Yield(evs) == events' = events \o evs

\* The run returns: nothing more is yielded.
Return(evs) ==
  /\ Yield(evs)
  /\ pc' = "returned"
  /\ UNCHANGED <<run_project, attempt, updated_files, build_result,
                 chat_messages, runs, validations, fix_invocations,
                 tool_rounds, stubborn, run_file_ops, explorationVars>>

\* An event_stream that ends after the error event.
EscapedEvents_NoDone == <<sse_error>>

\* routers/chat.py event_stream, except Exception: what the route yields
\* when an exception leaves run_pipeline or the reads before it.
EscapedEvents == <<sse_error, sse_done(NoId)>>

\* routers/chat.py event_stream: read the current files, then run_pipeline up
\* to the intent parser (a failing memory lookup is swallowed).
get_current_files(p) ==
  IF projects[p].current_version_id = NoId
    THEN NoFiles ELSE versions[projects[p].current_version_id].files

StartRun(p, raised, service_stubborn) ==
  /\ pc \in {"idle", "returned"}
  /\ runs < MaxRuns
  /\ Len(versions) < MaxVersions
  /\ runs' = runs + 1
  /\ run_project' = p
  /\ updated_files' = IF raised THEN NoFiles ELSE get_current_files(p)
  /\ build_result' = NoResult
  /\ attempt' = 0
  /\ events' = IF raised THEN EscapedEvents
                          ELSE <<sse_stage_change("intent_parser")>>
  /\ pc' = IF raised THEN "returned" ELSE "intent_parser"
  /\ validations' = 0
  /\ fix_invocations' = 0
  /\ tool_rounds' = 0
  /\ stubborn' = service_stubborn
  /\ run_file_ops' = <<>>
  /\ UNCHANGED <<chat_messages, explorationVars>>

\* Stage 1 and, for a question, the direct answer.
ParseIntent(outcome) ==
  /\ pc = "intent_parser"
  /\ CASE outcome = "raise" ->
             Return(<<sse_error, sse_done(NoId)>>)
       [] outcome = "question" ->
             /\ Yield(<<sse_token, sse_stage_change("responding"), sse_token,
                        sse_done(NoId)>>)
             /\ chat_messages' = chat_messages + 1
             /\ pc' = "returned"
             /\ UNCHANGED <<run_project, attempt, updated_files, build_result,
                            runs, validations, fix_invocations,
                            tool_rounds, stubborn, run_file_ops, explorationVars>>
       [] outcome = "question_raise" ->
             Return(<<sse_token, sse_stage_change("responding"), sse_error,
                      sse_done(NoId)>>)
       [] outcome = "build" ->
             /\ Yield(<<sse_token, sse_stage_change("planner")>>)
             /\ pc' = "planner"
             /\ UNCHANGED <<run_project, attempt, updated_files, build_result,
                            chat_messages, runs, validations, fix_invocations,
                            tool_rounds, stubborn, run_file_ops, explorationVars>>

\* Stage 2
CreatePlan(outcome) ==
  /\ pc = "planner"
  /\ CASE outcome = "raise" -> Return(<<sse_error, sse_done(NoId)>>)
       [] outcome = "empty" -> Return(<<sse_token, sse_done(NoId)>>)
       [] outcome = "plan" ->
             /\ Yield(<<sse_token, sse_stage_change("builder")>>)
             /\ pc' = "builder"
             /\ UNCHANGED <<run_project, attempt, updated_files, build_result,
                            chat_messages, runs, validations, fix_invocations,
                            tool_rounds, stubborn, run_file_ops, explorationVars>>

\* A file_path that is no string (the tool arguments are any JSON the
\* service sent): apply_file_ops raises on a write to it.
BadPath == "<no string>"
ApplyRaises(file_ops) ==
  \E i \in 1..Len(file_ops) :
    file_ops[i].action = "write" /\ file_ops[i].file_path = BadPath

\* The loops of execute_build and fix_errors keep no counter.  The passes
\* of a stage are counted up to MaxToolRounds; every pass after that moves
\* the count between MaxToolRounds and MaxToolRounds + 1, and the event list
\* records the tool_call events of the first MaxToolRounds passes.
NextToolRound ==
  IF tool_rounds <= MaxToolRounds THEN tool_rounds + 1 ELSE MaxToolRounds

RoundEvents ==
  IF tool_rounds < MaxToolRounds THEN <<sse_tool_call>> ELSE <<>>

\* execute_build, one pass of its while loop whose reply has tool calls and
\* a finish_reason other than "stop": the tool calls are reported and
\* answered, and the loop calls the service again.
BuildRound ==
  /\ pc = "builder"
  /\ tool_rounds' = NextToolRound
  /\ Yield(RoundEvents)
  /\ UNCHANGED <<pc, run_project, attempt, updated_files, build_result,
                 chat_messages, runs, validations, fix_invocations, stubborn, run_file_ops,
                 explorationVars>>

\* Stage 3, the reply that ends execute_build (or the call that raised),
\* and the file operations applied to the current files.  apply_file_ops
\* is outside any try of run_pipeline: when it raises, the route handles it.
\* A builder whose empty result is taken on to validation.
NoOperations_Never(file_ops) == FALSE

\* run_pipeline: if not file_ops
NoOperations(file_ops) == file_ops = <<>>

ExecuteBuild(raised, file_ops) ==
  /\ pc = "builder"
  /\ ~stubborn
  /\ IF raised THEN Return(<<sse_error, sse_done(NoId)>>)
     ELSE IF NoOperations(file_ops)
       THEN Return(<<sse_token, sse_done(NoId)>>)
     ELSE IF ApplyRaises(file_ops) THEN Return(EscapedEvents)
     ELSE /\ run_file_ops' = file_ops
          /\ updated_files' = apply_file_ops(updated_files, file_ops)
          /\ Yield(<<sse_stage_change("validation")>>)
          /\ attempt' = 0
          /\ pc' = "validation"
          /\ tool_rounds' = 0
          /\ UNCHANGED <<run_project, build_result, chat_messages, runs,
                         validations, fix_invocations, stubborn,
                         explorationVars>>

\* A loop that also fixes in its last round.
FixAllowed_LastRound(a) == a <= MAX_FIX_RETRIES

\* if attempt < MAX_FIX_RETRIES
FixAllowed(a) == a < MAX_FIX_RETRIES

\* for attempt in range(MAX_FIX_RETRIES + 1): is there a next round
LoopContinues(a) == a + 1 < MAX_FIX_RETRIES + 1

\* Top of the loop body: validate, report, and decide what comes next.
Validate ==
  /\ pc = "validation"
  /\ LET result == validate_build(updated_files)
     IN /\ build_result' = result
        /\ IF result.success
             THEN /\ Yield(<<sse_build_status(TRUE, <<>>)>>)
                  /\ pc' = "save"
           ELSE IF FixAllowed(attempt)
             THEN /\ Yield(<<sse_build_status(FALSE, result.errors),
                             sse_stage_change("fix_agent")>>)
                  /\ pc' = "fix_agent"
           ELSE /\ Yield(<<sse_build_status(FALSE, result.errors)>>)
                /\ pc' = IF LoopContinues(attempt) THEN "validation" ELSE "save"
  /\ attempt' = IF ~validate_build(updated_files).success
                    /\ ~FixAllowed(attempt) /\ LoopContinues(attempt)
                  THEN attempt + 1 ELSE attempt
  /\ validations' = validations + 1
  /\ UNCHANGED <<run_project, updated_files, chat_messages, runs,
                 fix_invocations, tool_rounds, stubborn, run_file_ops, explorationVars>>

\* The files after a fix stage that ended normally: its operations applied.
FixedFiles(files, fix_ops) == apply_file_ops(files, fix_ops)

\* A fix stage whose operations are applied as they arrive, so that they
\* stay applied when the stage raises afterwards.
UnfixedFiles_Partial(files, fix_ops) == apply_file_ops(files, fix_ops)

\* The files after a fix stage that raised: fix_errors yields its
\* operations once, as its last event, so none has been applied.
UnfixedFiles(files, fix_ops) == files

\* The call of fix_errors is counted when it starts: pc is "fix_agent"
\* until then and "fix_errors" inside its while loop.
FixInvocations == IF pc = "fix_agent" THEN fix_invocations + 1 ELSE fix_invocations

\* fix_errors, one pass of its while loop whose reply has tool calls and a
\* finish_reason other than "stop".
FixRound ==
  /\ pc \in {"fix_agent", "fix_errors"}
  /\ tool_rounds' = NextToolRound
  /\ pc' = "fix_errors"
  /\ fix_invocations' = FixInvocations
  /\ Yield(RoundEvents)
  /\ UNCHANGED <<run_project, attempt, updated_files, build_result,
                 chat_messages, runs, validations, stubborn, run_file_ops, explorationVars>>

\* fix_errors, the reply that ends it (or the call that raised), and the
\* rest of the loop body.  apply_file_ops is inside the try here.
FixErrors(raised, fix_ops) ==
  /\ pc \in {"fix_agent", "fix_errors"}
  /\ ~stubborn
  /\ IF raised \/ ApplyRaises(fix_ops)
       THEN /\ updated_files' = UnfixedFiles(updated_files, fix_ops)
            /\ Yield(<<sse_error>>)
            /\ pc' = "save"
            /\ UNCHANGED attempt
       ELSE /\ updated_files' = FixedFiles(updated_files, fix_ops)
            /\ Yield(<<sse_stage_change("validation")>>)
            /\ pc' = IF LoopContinues(attempt) THEN "validation" ELSE "save"
            /\ attempt' = attempt + 1
  /\ fix_invocations' = FixInvocations
  /\ tool_rounds' = 0
  /\ UNCHANGED <<run_project, build_result, chat_messages, runs, validations,
                 stubborn, run_file_ops, explorationVars>>

\* A save that records no log.
BuildLog_Dropped(result) == NoLog

\* "\n".join(build_result.errors) if build_result.errors else None: the
\* lines of the log.
BuildLog(result) == IF result.errors # <<>> THEN result.errors ELSE NoLog

BuildStatus(result) == IF result.success THEN "success" ELSE "failed"

\* Save version with updated files.  The assistant message is committed
\* before the version; either commit may raise.
SaveVersion(outcome) ==
  /\ pc = "save"
  /\ CASE outcome = "message_raise" ->
             Return(<<sse_error, sse_done(NoId)>>)
       [] outcome = "version_raise" ->
             /\ chat_messages' = chat_messages + 1
             /\ Yield(<<sse_error, sse_done(NoId)>>)
             /\ pc' = "returned"
             /\ UNCHANGED <<run_project, attempt, updated_files, build_result,
                            runs, validations, fix_invocations,
                            tool_rounds, stubborn, run_file_ops, explorationVars>>
       [] outcome = "saved" ->
             /\ chat_messages' = chat_messages + 1
             /\ create_version(run_project, updated_files,
                               BuildStatus(build_result),
                               BuildLog(build_result), "run_pipeline")
             /\ Yield(<<sse_done(Len(versions) + 1)>>)
             /\ pc' = "returned"
             /\ UNCHANGED <<run_project, attempt, updated_files, build_result,
                            runs, validations, fix_invocations, tool_rounds,
                            stubborn, run_file_ops, sessions,
                            notes, preferences, response>>

\* File operations the builder and the fix stage reply with.
BuilderOps ==
  { <<>>,
    <<WriteOp("index.html", "HTML_OK")>>,
    <<WriteOp("index.html", "HTML_NOHEAD")>>,
    <<WriteOp("index.html", "HTML_REFS"), DeleteOp("script.js")>>,
    <<WriteOp(BadPath, "JS")>> }
FixOps ==
  { <<>>,
    <<WriteOp("index.html", "HTML_OK")>>,
    <<WriteOp("script.js", "JS")>>,
    <<DeleteOp("index.html")>>,
    <<WriteOp("index.html", "HTML_OK"), WriteOp(BadPath, "JS")>> }

RunStart ==
  /\ \E p \in Projects, raised \in BOOLEAN, service_stubborn \in BOOLEAN :
       StartRun(p, raised, service_stubborn)
  /\ UNCHANGED outsidePipeline
RunBuildRound == BuildRound /\ UNCHANGED outsidePipeline
RunFixRound == FixRound /\ UNCHANGED outsidePipeline
RunIntent ==
  /\ \E outcome \in {"raise", "question", "question_raise", "build"} :
       ParseIntent(outcome)
  /\ UNCHANGED outsidePipeline
RunPlan ==
  /\ \E outcome \in {"raise", "empty", "plan"} : CreatePlan(outcome)
  /\ UNCHANGED outsidePipeline
RunBuild ==
  /\ \E raised \in BOOLEAN : \E ops \in Replies(BuilderOps, ~raised) :
       ExecuteBuild(raised, ops)
  /\ UNCHANGED outsidePipeline
RunValidate == Validate /\ UNCHANGED outsidePipeline
RunFix ==
  /\ \E raised \in BOOLEAN, ops \in FixOps : FixErrors(raised, ops)
  /\ UNCHANGED outsidePipeline
RunSave ==
  /\ \E outcome \in {"message_raise", "version_raise", "saved"} :
       SaveVersion(outcome)
  /\ UNCHANGED outsidePipeline

\* ------------------------------------------------------------------------
\* Concurrent chat requests and the per-project build lock (routers/chat.py)
\* ------------------------------------------------------------------------
Requests == 1..MaxRequests

\* A request: where it is, the current_version_id its session loaded with
\* the Project row (seen), and the version whose files it read (base).
ChatRequest(at, p, seen, base, files) ==
  [pc |-> at, project_id |-> p, seen |-> seen, base |-> base, files |-> files]

LockInit ==
  /\ requests = [r \in Requests |->
                   ChatRequest("none", ProjectSeq[1], NoId, NoId, NoFiles)]
  /\ locks = [p \in Projects |-> NoId]

\* send_message up to the StreamingResponse: db.get(Project, project_id)
\* loads the Project row into the request's session, and the user message
\* is committed (the session is made with expire_on_commit=False, so the
\* row stays loaded).
SendMessage(r, p) ==
  /\ requests[r].pc \in {"none", "done"}
  /\ Len(versions) < MaxVersions
  /\ requests' = [requests EXCEPT ![r] =
        ChatRequest("waiting", p, projects[p].current_version_id, NoId,
                    NoFiles)]
  /\ UNCHANGED <<locks, explorationVars>>

\* event_stream: async with lock
AcquireLock(r) ==
  /\ requests[r].pc = "waiting"
  /\ locks[requests[r].project_id] = NoId
  /\ locks' = [locks EXCEPT ![requests[r].project_id] = r]
  /\ requests' = [requests EXCEPT ![r].pc = "locked"]
  /\ UNCHANGED explorationVars

\* file_service.get_current_files: db.get(Project, project_id).  Session.get
\* answers from the session's identity map when the row is loaded there
\* (loaded), and from the database otherwise.
ProjectPointer(r, loaded) ==
  IF loaded THEN requests[r].seen
            ELSE projects[requests[r].project_id].current_version_id

\* event_stream: files = await get_current_files(db, project_id).  Whether
\* the row loaded by send_message is still in the session depends on
\* whether the get_db dependency has closed the session before the body is
\* streamed, which the web framework decides.
ReadFiles(r, loaded) ==
  /\ requests[r].pc = "locked"
  /\ LET base == ProjectPointer(r, loaded) IN
       requests' = [requests EXCEPT ![r] =
         ChatRequest("streaming", requests[r].project_id, requests[r].seen,
                     base,
                     IF base = NoId THEN NoFiles ELSE versions[base].files)]
  /\ UNCHANGED <<locks, explorationVars>>

\* event_stream: run_pipeline from the files read to its save step, then
\* the lock is released.  A run that answers a question, or that raises,
\* commits no version.
RunPipelineLocked(r, outcome, file_ops) ==
  /\ requests[r].pc = "streaming"
  /\ locks' = [locks EXCEPT ![requests[r].project_id] = NoId]
  /\ requests' = [requests EXCEPT ![r].pc = "done"]
  /\ IF outcome = "saved" /\ ~ApplyRaises(file_ops)
       THEN LET updated == apply_file_ops(requests[r].files, file_ops)
                result == validate_build(updated)
            IN /\ create_version(requests[r].project_id, updated,
                                 BuildStatus(result), BuildLog(result),
                                 "run_pipeline")
               /\ UNCHANGED <<sessions, notes, preferences, response>>
       ELSE UNCHANGED explorationVars

ChatSend ==
  /\ \E r \in Requests, p \in Projects : SendMessage(r, p)
  /\ UNCHANGED outsideLock
ChatAcquire ==
  /\ \E r \in Requests : AcquireLock(r)
  /\ UNCHANGED outsideLock
ChatReadFiles ==
  /\ \E r \in Requests, loaded \in BOOLEAN : ReadFiles(r, loaded)
  /\ UNCHANGED outsideLock
ChatRunPipeline ==
  /\ \E r \in Requests, outcome \in {"saved", "no_version"},
        file_ops \in BuilderOps : RunPipelineLocked(r, outcome, file_ops)
  /\ UNCHANGED outsideLock

\* ------------------------------------------------------------------------
\* iterate, step by step: the handler up to its call of the reasoning
\* service (it has then loaded the session row, the project row and the
\* files of the current version), and from the reply to its commit.
\* ------------------------------------------------------------------------
IterateRequest(at, p, sid, user_input, session, base, files) ==
  [pc |-> at, project_id |-> p, session_id |-> sid, user_input |-> user_input,
   session |-> session, base |-> base, files |-> files]

NoIterateRequest ==
  IterateRequest("none", ProjectSeq[1], NoId, EmptyText, NoOption, NoId,
                 NoFiles)

IteratingInit == iterating = [r \in Requests |-> NoIterateRequest]

\* iterate up to `modifications = await _call_openai_json(...)`
IterateLoad(r, p, sid, user_input) ==
  /\ iterating[r].pc = "none"
  /\ IF sid \notin SessionIds
       THEN Rejected("Session not found") /\ UNCHANGED iterating
     ELSE IF projects[p].current_version_id = NoId
       THEN Rejected("No current version") /\ UNCHANGED iterating
     ELSE /\ Len(versions) < MaxVersions
          /\ sessions[sid].iteration_count < MaxIterations
          /\ iterating' = [iterating EXCEPT ![r] =
                IterateRequest("generating", p, sid, user_input, sessions[sid],
                  projects[p].current_version_id,
                  versions[projects[p].current_version_id].files)]
          /\ UNCHANGED explorationVars

\* iterate from the reply to the commit.  The new version holds the files
\* loaded before the call; the session row is the loaded object, and the
\* UPDATE at the commit sets the attributes whose value differs from the
\* loaded one.
IterateCommit(r, modifications, tracked, serviceOk) ==
  LET req == iterating[r]
      after == IteratedSession(req.session, req.user_input, tracked)
  IN /\ req.pc = "generating"
     /\ iterating' = [iterating EXCEPT ![r] = NoIterateRequest]
     /\ IF ~serviceOk THEN Rejected(ServiceError)
        ELSE /\ Len(versions) < MaxVersions
             /\ versions' = Append(versions,
                   ProjectVersion(req.project_id, "success", NoLog,
                     IteratedFiles(req.files, modifications), "iterate",
                     req.session_id))
             /\ projects' = [projects EXCEPT
                   ![req.project_id].current_version_id = Len(versions) + 1]
             /\ sessions' = [sessions EXCEPT ![req.session_id] =
                   [@ EXCEPT
                      !.iteration_count = after.iteration_count,
                      !.state = after.state,
                      !.hypothesis_ledger =
                        IF after.hypothesis_ledger
                             = req.session.hypothesis_ledger
                          THEN @ ELSE after.hypothesis_ledger]]
             /\ response' = "ok"
             /\ UNCHANGED <<notes, preferences>>

IteratingLoad ==
  /\ \E r \in Requests, p \in Projects, sid \in 1..MaxSessions,
        u \in IterateInputs : IterateLoad(r, p, sid, u)
  /\ UNCHANGED outsideIterating

IteratingCommit ==
  /\ \E r \in Requests, serviceOk \in BOOLEAN :
       \E m \in Replies(IterateReplies, serviceOk),
          tracked \in Replies(BOOLEAN, serviceOk) :
         IterateCommit(r, m, tracked, serviceOk)
  /\ UNCHANGED outsideIterating

\* ------------------------------------------------------------------------
\* finish_exploration, step by step: the handler up to its SELECT of the
\* project's UserPreference row, and from there to its commit.  The rows
\* the handler adds and changes are written at the commit.
\* ------------------------------------------------------------------------
UserPreference(p, preference_json) ==
  [project_id |-> p, preference_json |-> preference_json]

PreferenceRowsOf(p) ==
  {i \in 1..Len(preference_rows) : preference_rows[i].project_id = p}

FinishRequest(at, p, sid, user_preferences, pref) ==
  [pc |-> at, project_id |-> p, session_id |-> sid,
   user_preferences |-> user_preferences, pref |-> pref]

NoFinishRequest == FinishRequest("none", ProjectSeq[1], NoId, "none", NoId)

FinishInit ==
  /\ preference_rows = <<>>
  /\ finishing = [r \in Requests |-> NoFinishRequest]

\* From the start of the handler to
\* pref = result.scalar_one_or_none(), which raises MultipleResultsFound
\* when the project has several rows.  A reply without user_preferences
\* skips the SELECT.
FinishSelect(r, p, sid, user_preferences, serviceOk) ==
  /\ finishing[r].pc = "none"
  /\ IF sid \notin SessionIds \/ ~serviceOk
       THEN /\ finish_exploration(p, sid, user_preferences, serviceOk)
            /\ UNCHANGED finishVars
     ELSE IF user_preferences # "none" /\ Cardinality(PreferenceRowsOf(p)) > 1
       THEN /\ Rejected("MultipleResultsFound")
            /\ UNCHANGED finishVars
     ELSE /\ finishing' = [finishing EXCEPT ![r] =
                FinishRequest("selected", p, sid, user_preferences,
                  IF user_preferences # "none" /\ PreferenceRowsOf(p) # {}
                    THEN CHOOSE i \in PreferenceRowsOf(p) : TRUE
                    ELSE NoId)]
          /\ UNCHANGED <<preference_rows, explorationVars>>

\* From there to the commit: the note, the preference row (changed when
\* the SELECT found one, added otherwise) and the session state.
FinishCommit(r) ==
  /\ finishing[r].pc = "selected"
  /\ finish_exploration(finishing[r].project_id, finishing[r].session_id,
                        finishing[r].user_preferences, TRUE)
  /\ preference_rows' =
       IF finishing[r].user_preferences = "none" THEN preference_rows
       ELSE IF finishing[r].pref # NoId
         THEN [preference_rows EXCEPT ![finishing[r].pref].preference_json =
                 finishing[r].user_preferences]
         ELSE Append(preference_rows,
                UserPreference(finishing[r].project_id,
                               finishing[r].user_preferences))
  /\ finishing' = [finishing EXCEPT ![r] = NoFinishRequest]

FinishingSelect ==
  /\ \E r \in Requests, p \in Projects, sid \in 1..MaxSessions,
        serviceOk \in BOOLEAN :
       \E prefs \in Replies(PreferenceMaps, serviceOk) :
         FinishSelect(r, p, sid, prefs, serviceOk)
  /\ UNCHANGED outsideFinish
FinishingCommit ==
  /\ \E r \in Requests : FinishCommit(r)
  /\ UNCHANGED outsideFinish

\* ------------------------------------------------------------------------
\* Preview cache and runtime-fix loop (exploration_service.py)
\* ------------------------------------------------------------------------
PREVIEW_TTL == 30
MAX_FIX_ATTEMPTS == 2

\* f"preview:{session_id}:{option_id}"
CacheKey(session_id, option_id) == <<session_id, option_id>>
\* The (session, option) pairs that preview requests name.
CacheKeys == {<<1, "opt_1">>, <<1, "opt_2">>}

\* meta_json: fix_attempts 0 stands for a bag without the key (read as 0 by
\* meta.get("fix_attempts", 0)), last_errors <<>> likewise.
KVCache(value_text, expires_at, fix_attempts, last_errors) ==
  [present |-> TRUE, value_text |-> value_text, expires_at |-> expires_at,
   meta_json |-> [fix_attempts |-> fix_attempts, last_errors |-> last_errors]]
NoEntry ==
  [present |-> FALSE, value_text |-> EmptyText, expires_at |-> 0,
   meta_json |-> [fix_attempts |-> 0, last_errors |-> <<>>]]

\* What a preview request answers: the error it raised ("" for none), the
\* text it returned, and whether it called the reasoning service.
Reply(op, error, body, called) ==
  [op |-> op, error |-> error, body |-> body, called |-> called]

NotReplaced == -1

CacheInit ==
  /\ cache = [k \in CacheKeys |-> NoEntry]
  /\ now = 0
  /\ fix_calls = [k \in CacheKeys |-> 0]
  /\ reply = Reply("none", "", EmptyText, FALSE)
  /\ replaced = NotReplaced

\* A preview request that raised before its commit.
PreviewRejected(op, error, called) ==
  /\ reply' = Reply(op, error, EmptyText, called)
  /\ UNCHANGED <<cache, now, replaced>>

\* A cache whose rows never expire.
IsExpired_Never(row) == FALSE

\* get_cached_preview: the stored text, or EmptyText for None.
\* row.expires_at < datetime.now(timezone.utc)
IsExpired(row) == row.expires_at < now
get_cached_preview(cache_key) ==
  LET row == cache[cache_key]
  IN IF ~row.present THEN EmptyText
     ELSE IF IsExpired(row) THEN EmptyText
     ELSE row.value_text

\* The error-catcher script the preview route puts after the first <head>.
ERROR_CATCHER_SCRIPT == "<script>catcher</script>"
InjectErrorCatcher(html) ==
  IF Props(html).head THEN ERROR_CATCHER_SCRIPT \o html ELSE html

\* routers/exploration.py get_preview_option: serve the cached preview.
get_preview_option(session_id, option_id) ==
  LET cache_key == CacheKey(session_id, option_id)
      html == get_cached_preview(cache_key)
  IN /\ reply' = IF html = EmptyText
                    THEN Reply("get_preview_option", "Preview not ready",
                               EmptyText, FALSE)
                    ELSE Reply("get_preview_option", "",
                               InjectErrorCatcher(html), FALSE)
     /\ UNCHANGED <<cache, now, fix_calls, replaced>>

\* An upsert that keeps the meta_json of the row it writes over.
StoredEntry_KeepMeta(row, html) ==
  [row EXCEPT !.present = TRUE, !.value_text = html,
              !.expires_at = now + PREVIEW_TTL]

\* preview_option, the row after the upsert: value_text, expires_at and a
\* new meta_json {session_id, option_id} without fix_attempts.
StoredEntry(row, html) == KVCache(html, now + PREVIEW_TTL, 0, <<>>)

preview_option(session_id, option_id, html, serviceOk) ==
  LET cache_key == CacheKey(session_id, option_id)
      cached == get_cached_preview(cache_key)
  IN IF cached # EmptyText
       THEN /\ reply' = Reply("preview_option", "", cached, FALSE)
            /\ UNCHANGED <<cache, now, fix_calls, replaced>>
     ELSE IF session_id \notin SessionIds
       THEN /\ PreviewRejected("preview_option", "Session not found", FALSE)
            /\ UNCHANGED fix_calls
     ELSE IF option_id \notin sessions[session_id].options
       THEN /\ PreviewRejected("preview_option", "Option not found", FALSE)
            /\ UNCHANGED fix_calls
     ELSE IF ~serviceOk
       THEN /\ PreviewRejected("preview_option", ServiceError, TRUE)
            /\ UNCHANGED fix_calls
     ELSE IF html = EmptyText
       THEN /\ PreviewRejected("preview_option",
                 "Game generation failed - no index.html produced", TRUE)
            /\ UNCHANGED fix_calls
     ELSE /\ cache' = [cache EXCEPT
               ![cache_key] = StoredEntry(cache[cache_key], html)]
          /\ fix_calls' = [fix_calls EXCEPT ![cache_key] = 0]
          /\ reply' = Reply("preview_option", "", html, TRUE)
          /\ replaced' = IF cache[cache_key].present
                            THEN cache[cache_key].meta_json.fix_attempts
                            ELSE NotReplaced
          /\ UNCHANGED now

\* fix_preview that lets one more attempt through.
AttemptsExhausted_OffByOne(attempts) == attempts > MAX_FIX_ATTEMPTS

\* if attempts >= 2
AttemptsExhausted(attempts) == attempts >= MAX_FIX_ATTEMPTS

\* [e.get("message", "") for e in errors[:5]]
LastErrors(errors) ==
  SubSeq(errors, 1, IF Len(errors) < 5 THEN Len(errors) ELSE 5)

\* fix_preview, the row after a fix.  meta is the dict loaded from the row,
\* changed in place and assigned back; whether the ORM writes such an
\* in-place change of a JSONB value is decided outside the repository
\* (tracked).
FixedEntry(row, html, errors, tracked) ==
  [row EXCEPT
     !.value_text = html,
     !.expires_at = now + PREVIEW_TTL,
     !.meta_json = IF tracked
                     THEN [fix_attempts |-> row.meta_json.fix_attempts + 1,
                           last_errors |-> LastErrors(errors)]
                     ELSE @]

fix_preview(session_id, option_id, errors, html, tracked, serviceOk) ==
  LET cache_key == CacheKey(session_id, option_id)
      row == cache[cache_key]
  IN IF ~row.present
       THEN /\ PreviewRejected("fix_preview", "No cached preview to fix", FALSE)
            /\ UNCHANGED fix_calls
     ELSE IF AttemptsExhausted(row.meta_json.fix_attempts)
       THEN /\ PreviewRejected("fix_preview", "Max fix attempts reached", FALSE)
            /\ UNCHANGED fix_calls
     ELSE /\ fix_calls[cache_key] < MaxServiceCalls
          /\ fix_calls' = [fix_calls EXCEPT ![cache_key] = @ + 1]
          /\ IF ~serviceOk
               THEN PreviewRejected("fix_preview", ServiceError, TRUE)
             ELSE IF html = EmptyText
               THEN PreviewRejected("fix_preview",
                      "AI did not return fixed code", TRUE)
             ELSE /\ cache' = [cache EXCEPT
                       ![cache_key] = FixedEntry(row, html, errors, tracked)]
                  /\ reply' = Reply("fix_preview", "", html, TRUE)
                  /\ UNCHANGED <<now, replaced>>

Tick ==
  /\ now < MaxTime
  /\ now' = now + TickStep
  /\ UNCHANGED <<cache, fix_calls, reply, replaced, outsideCache>>

ErrorReports == {<<"TypeError">>}
PreviewHtml == {EmptyText, "HTML_OK"}
FixedHtml == {EmptyText, "HTML_REFS"}

\* A preview request that also marks the sessions as finished.
PreviewWrites_Sessions ==
  /\ sessions' = [i \in DOMAIN sessions |-> FinishedSession(sessions[i])]
  /\ UNCHANGED <<projects, versions, notes, preferences, response>>

\* preview_option and fix_preview: the KVCache row is the only object they
\* add or assign to before their commit.
PreviewWrites == UNCHANGED explorationVars

PreviewOption ==
  /\ \E k \in CacheKeys, serviceOk \in BOOLEAN :
       \E html \in Replies(PreviewHtml, serviceOk) :
         preview_option(k[1], k[2], html, serviceOk)
  /\ PreviewWrites
  /\ UNCHANGED outsidePreview

GetPreviewOption ==
  /\ \E k \in CacheKeys : get_preview_option(k[1], k[2])
  /\ UNCHANGED outsideCache

FixPreview ==
  /\ \E k \in CacheKeys, errors \in ErrorReports, serviceOk \in BOOLEAN :
       \E html \in Replies(FixedHtml, serviceOk),
          tracked \in Replies(BOOLEAN, serviceOk) :
         fix_preview(k[1], k[2], errors, html, tracked, serviceOk)
  /\ PreviewWrites
  /\ UNCHANGED outsidePreview

\* ------------------------------------------------------------------------
\* fix_preview and preview_option, step by step.  fix_preview loads the
\* row and reads its counter, awaits the reasoning service, and commits;
\* preview_option awaits the reasoning service, selects the row of its
\* key, and commits.  kv_cache.cache_key is unique.
\* ------------------------------------------------------------------------
FixRequest(at, cache_key, row, errors) ==
  [pc |-> at, cache_key |-> cache_key, row |-> row, errors |-> errors]

NoFixRequest == FixRequest("none", CacheKey(NoId, NoOption), NoEntry, <<>>)

PreviewRequest(at, cache_key, html, found) ==
  [pc |-> at, cache_key |-> cache_key, html |-> html, found |-> found]

NoPreviewRequest ==
  PreviewRequest("none", CacheKey(NoId, NoOption), EmptyText, FALSE)

RaceInit ==
  /\ IteratingInit
  /\ fixing = [r \in Requests |-> NoFixRequest]
  /\ previewing = [r \in Requests |-> NoPreviewRequest]

\* fix_preview up to `fixed = await _call_openai_json(...)`
FixLoad(r, cache_key, errors) ==
  LET row == cache[cache_key]
  IN /\ fixing[r].pc = "none"
     /\ IF ~row.present
          THEN /\ PreviewRejected("fix_preview", "No cached preview to fix",
                                  FALSE)
               /\ UNCHANGED <<fix_calls, fixing>>
        ELSE IF AttemptsExhausted(row.meta_json.fix_attempts)
          THEN /\ PreviewRejected("fix_preview", "Max fix attempts reached",
                                  FALSE)
               /\ UNCHANGED <<fix_calls, fixing>>
        ELSE /\ fix_calls[cache_key] < MaxServiceCalls
             /\ fix_calls' = [fix_calls EXCEPT ![cache_key] = @ + 1]
             /\ fixing' = [fixing EXCEPT ![r] =
                   FixRequest("fixing", cache_key, row, errors)]
             /\ UNCHANGED <<cache, now, reply, replaced>>

\* fix_preview from the reply to the commit.  The row is the loaded object:
\* the UPDATE sets the attributes whose value differs from the loaded one.
FixCommit(r, html, tracked, serviceOk) ==
  LET req == fixing[r]
      fixed == FixedEntry(req.row, html, req.errors, tracked)
  IN /\ req.pc = "fixing"
     /\ fixing' = [fixing EXCEPT ![r] = NoFixRequest]
     /\ UNCHANGED fix_calls
     /\ IF ~serviceOk
          THEN PreviewRejected("fix_preview", ServiceError, TRUE)
        ELSE IF html = EmptyText
          THEN PreviewRejected("fix_preview", "AI did not return fixed code",
                               TRUE)
        ELSE /\ cache' = [cache EXCEPT ![req.cache_key] =
                   [@ EXCEPT
                      !.value_text = fixed.value_text,
                      !.expires_at = fixed.expires_at,
                      !.meta_json = IF fixed.meta_json = req.row.meta_json
                                      THEN @ ELSE fixed.meta_json]]
             /\ reply' = Reply("fix_preview", "", html, TRUE)
             /\ UNCHANGED <<now, replaced>>

\* preview_option up to `row = existing.scalar_one_or_none()` of the upsert
PreviewSelect(r, session_id, option_id, html, serviceOk) ==
  LET cache_key == CacheKey(session_id, option_id)
  IN /\ previewing[r].pc = "none"
     /\ IF \/ get_cached_preview(cache_key) # EmptyText
           \/ session_id \notin SessionIds
           \/ option_id \notin sessions[session_id].options
           \/ ~serviceOk
           \/ html = EmptyText
          THEN /\ preview_option(session_id, option_id, html, serviceOk)
               /\ UNCHANGED previewing
          ELSE /\ previewing' = [previewing EXCEPT ![r] =
                     PreviewRequest("adding", cache_key, html,
                                    cache[cache_key].present)]
               /\ UNCHANGED cacheVars

\* preview_option from there to the commit: the UPDATE of the row found, or
\* the INSERT of a new row, which the unique index on cache_key refuses
\* when the key has a row by then (IntegrityError).
PreviewCommit(r) ==
  LET req == previewing[r]
  IN /\ req.pc = "adding"
     /\ previewing' = [previewing EXCEPT ![r] = NoPreviewRequest]
     /\ IF ~req.found /\ cache[req.cache_key].present
          THEN /\ PreviewRejected("preview_option", "IntegrityError", TRUE)
               /\ UNCHANGED fix_calls
          ELSE /\ cache' = [cache EXCEPT ![req.cache_key] =
                     StoredEntry(cache[req.cache_key], req.html)]
               /\ fix_calls' = [fix_calls EXCEPT ![req.cache_key] = 0]
               /\ reply' = Reply("preview_option", "", req.html, TRUE)
               /\ replaced' = IF cache[req.cache_key].present
                                 THEN cache[req.cache_key].meta_json.fix_attempts
                                 ELSE NotReplaced
               /\ UNCHANGED now

FixingLoad ==
  /\ \E r \in Requests, k \in CacheKeys, errors \in ErrorReports :
       FixLoad(r, k, errors)
  /\ UNCHANGED <<previewing, outsidePreviewing>>

FixingCommit ==
  /\ \E r \in Requests, serviceOk \in BOOLEAN :
       \E html \in Replies(FixedHtml, serviceOk),
          tracked \in Replies(BOOLEAN, serviceOk) :
         FixCommit(r, html, tracked, serviceOk)
  /\ UNCHANGED <<previewing, outsidePreviewing>>

PreviewingSelect ==
  /\ \E r \in Requests, k \in CacheKeys, serviceOk \in BOOLEAN :
       \E html \in Replies(PreviewHtml, serviceOk) :
         PreviewSelect(r, k[1], k[2], html, serviceOk)
  /\ UNCHANGED <<fixing, outsidePreviewing>>

PreviewingCommit ==
  /\ \E r \in Requests : PreviewCommit(r)
  /\ UNCHANGED <<fixing, outsidePreviewing>>

\* ------------------------------------------------------------------------
\* Project memories (memory_service.py, routers/memories.py, and the
\* extraction at the end of run_pipeline)
\* ------------------------------------------------------------------------
MemoryContents == {"fact_a", "fact_b"}

ProjectMemory(p, content, source) ==
  [project_id |-> p, content |-> content, source |-> source]

\* The id of a row that was deleted.
DeletedMemory == ProjectMemory("<deleted>", EmptyText, "<deleted>")

MemoryInit == memories = <<>>

\* memory_service.create_memory: the embedding call may raise, and then no
\* row is added.
create_memory(p, content, source, raised) ==
  IF raised THEN memories
            ELSE Append(memories, ProjectMemory(p, content, source))

\* POST /memories
CreateMemory(p, content, raised) ==
  /\ Len(memories) < MaxMemories
  /\ memories' = create_memory(p, content, "manual", raised)

\* run_pipeline after a successful build: a memory with source "auto" for
\* every extracted fact; each is committed by itself, and an exception ends
\* the loop and is swallowed (failed_at: the fact whose create_memory
\* raised, 0 for none).
RECURSIVE CreateAll(_, _, _, _)
CreateAll(rows, p, facts, failed_at) ==
  IF facts = <<>> \/ failed_at = 1 THEN rows
  ELSE CreateAll(Append(rows, ProjectMemory(p, Head(facts), "auto")), p,
                 Tail(facts), IF failed_at = 0 THEN 0 ELSE failed_at - 1)

ExtractMemories(p, facts, failed_at) ==
  /\ Len(memories) + Len(facts) <= MaxMemories
  /\ memories' = CreateAll(memories, p, facts, failed_at)

\* memory_service.update_memory: the row of the project with that id gets
\* the new content; None (404) when there is none.
update_memory(memory_id, p, content, raised) ==
  IF memory_id \notin 1..Len(memories)
       \/ memories[memory_id].project_id # p
       \/ raised
    THEN memories
    ELSE [memories EXCEPT ![memory_id].content = content]

\* PUT /memories/{memory_id}
UpdateMemory(memory_id, p, content, raised) ==
  memories' = update_memory(memory_id, p, content, raised)

\* memory_service.delete_memory
delete_memory(memory_id, p) ==
  IF memory_id \notin 1..Len(memories)
       \/ memories[memory_id].project_id # p
    THEN memories
    ELSE [memories EXCEPT ![memory_id] = DeletedMemory]

\* DELETE /memories/{memory_id}
DeleteMemory(memory_id, p) ==
  memories' = delete_memory(memory_id, p)

MemoryCreate ==
  /\ \E p \in Projects, content \in MemoryContents, raised \in BOOLEAN :
       CreateMemory(p, content, raised)
  /\ UNCHANGED outsideMemories
MemoryExtract ==
  /\ \E p \in Projects, facts \in SeqsUpTo(MemoryContents, 2),
        failed_at \in 0..2 : ExtractMemories(p, facts, failed_at)
  /\ UNCHANGED outsideMemories
MemoryUpdate ==
  /\ \E memory_id \in 1..MaxMemories, p \in Projects,
        content \in MemoryContents \cup {"fact_edited"}, raised \in BOOLEAN :
       UpdateMemory(memory_id, p, content, raised)
  /\ UNCHANGED outsideMemories
MemoryDelete ==
  /\ \E memory_id \in 1..MaxMemories, p \in Projects :
       DeleteMemory(memory_id, p)
  /\ UNCHANGED outsideMemories

NoCall == [fn |-> "none"]

CallInit ==
  /\ call_args = NoCall
  /\ call_result = NoCall

Init ==
  /\ ExplorationInit /\ PipelineInit /\ CacheInit /\ StageInit /\ LockInit
  /\ CallInit
  /\ MemoryInit
  /\ FinishInit
  /\ RaceInit

ExplorationNext ==
  Explore \/ SelectOption \/ Iterate \/ FinishExploration \/ Rollback

PipelineNext ==
  RunStart \/ RunIntent \/ RunPlan \/ RunBuildRound \/ RunBuild
    \/ RunValidate \/ RunFixRound \/ RunFix \/ RunSave

CacheNext ==
  Explore \/ PreviewOption \/ GetPreviewOption \/ FixPreview \/ Tick

SpecExploration == Init /\ [][ExplorationNext]_vars

SpecPipeline == Init /\ [][PipelineNext]_vars

\* The steps of a run under way are taken as long as a call returns: the
\* event loop resumes the generator after every await.
RunStep ==
  RunIntent \/ RunPlan \/ RunBuildRound \/ RunBuild \/ RunValidate
    \/ RunFixRound \/ RunFix \/ RunSave
SpecPipelineFair == SpecPipeline /\ WF_vars(RunStep)

SpecCache == Init /\ [][CacheNext]_vars

StageNext ==
  StageBegin \/ StageFirstCall \/ StageToolRound \/ StageEndCall
    \/ StageGetMemoryContext \/ StageMapAndPersist

SpecStages == Init /\ [][StageNext]_vars

SpecValidator == Init /\ [][CallValidateBuild]_vars

MemoryNext ==
  MemoryCreate \/ MemoryExtract \/ MemoryUpdate \/ MemoryDelete

SpecMemories == Init /\ [][MemoryNext]_vars

FinishNext == Explore \/ FinishingSelect \/ FinishingCommit

SpecFinish == Init /\ [][FinishNext]_vars

SpecSearch == Init /\ [][CallSearchMemory]_vars
SpecFeel == Init /\ [][CallAggregateFeel]_vars
SpecIterateFiles == Init /\ [][CallIterateFiles]_vars

PairNext ==
  PairExplore \/ PairSelectOption \/ PairIterate \/ PairFinishExploration
PairInit ==
  /\ PairExplorationInit /\ PipelineInit /\ CacheInit /\ StageInit /\ LockInit
  /\ CallInit /\ MemoryInit /\ FinishInit /\ RaceInit
SpecPair == PairInit /\ [][PairNext]_vars

SpecBranches == Init /\ [][CallSynthesizeBranches]_vars

SpecMapper == Init /\ [][CallMapOptions]_vars

LockNext == ChatSend \/ ChatAcquire \/ ChatReadFiles \/ ChatRunPipeline

SpecLock == Init /\ [][LockNext]_vars

\* A chat run next to a rollback, and iterate requests next to each other
\* and to a rollback.
RaceNext == LockNext \/ Rollback
SpecRaces == Init /\ [][RaceNext]_vars

PreviewingNext ==
  \/ Explore
  \/ PreviewingSelect \/ PreviewingCommit
  \/ FixingLoad \/ FixingCommit
SpecPreviewing == Init /\ [][PreviewingNext]_vars

IteratingNext == Explore \/ IteratingLoad \/ IteratingCommit \/ Rollback
SpecIterating == Init /\ [][IteratingNext]_vars

\* ------------------------------------------------------------------------
\* Exploration session state machine
\* ------------------------------------------------------------------------
AllowedEdges ==
  { <<"explore_options", "committed">>, <<"committed", "iterating">>,
    <<"iterating", "iterating">>, <<"iterating", "stable">> }

NotesOf(sid, writer) ==
  {i \in 1..Len(notes) :
     notes[i].source_session_id = sid /\ notes[i].writer = writer}

VersionsOf(vs, sid) == {i \in 1..Len(vs) : vs[i].session = sid}

SomeIterate(sid) ==
  \E p \in Projects, u \in IterateInputs, m \in IterateReplies,
     tracked \in BOOLEAN :
    iterate(p, sid, u, m, tracked, TRUE)
SomeFinish(sid, serviceOk) ==
  \E p \in Projects, prefs \in PreferenceMaps :
    finish_exploration(p, sid, prefs, serviceOk)

\* C1: every operation on a session moves its state only along the edges
\* explore_options->committed, committed->iterating, iterating->iterating,
\* iterating->stable.
C1_OnlyAllowedEdges ==
  [][\A sid \in SessionIds :
       sessions'[sid].state # sessions[sid].state
         => <<sessions[sid].state, sessions'[sid].state>> \in AllowedEdges]_vars

\* C2: a stable session is frozen: no later request changes its state,
\* selected option, iteration count or ledger, or creates a version for it.
C2_StableIsFrozen ==
  [][\A sid \in SessionIds :
       sessions[sid].state = "stable"
         => /\ sessions'[sid] = sessions[sid]
            /\ VersionsOf(versions', sid) = VersionsOf(versions, sid)]_vars

\* C3: a session becomes stable only by a finish_exploration that writes,
\* in the same step, a note whose source_session_id is the session; every
\* stable session has such a note; a finish that fails changes neither the
\* sessions nor the notes.
C3_StableHasNote ==
  \A sid \in SessionIds :
    sessions[sid].state = "stable" => NotesOf(sid, "finish_exploration") # {}

C3_StableOnlyByFinish ==
  /\ []C3_StableHasNote
  /\ [][\A sid \in SessionIds :
          /\ (sessions'[sid].state = "stable" /\ sessions[sid].state # "stable")
               => /\ SomeFinish(sid, TRUE)
                  /\ Len(notes') = Len(notes) + 1
                  /\ notes'[Len(notes')].source_session_id = sid
          /\ ((SomeFinish(sid, TRUE) \/ SomeFinish(sid, FALSE))
                 /\ response' # "ok")
               => UNCHANGED <<sessions, notes>>]_vars

C3_Witness ==
  \E sid \in SessionIds :
    /\ sessions[sid].state = "stable"
    /\ response = "ok"
    /\ notes[Len(notes)].source_session_id = sid
    /\ notes[Len(notes)].writer = "finish_exploration"

\* C4: selected_option_id is non-null only in committed, iterating or
\* stable; a session in explore_options has selected_option_id null.
C4_SelectedOnlyAfterCommit ==
  \A sid \in SessionIds :
    /\ sessions[sid].selected_option_id # NoOption
         => sessions[sid].state \in {"committed", "iterating", "stable"}
    /\ sessions[sid].state = "explore_options"
         => sessions[sid].selected_option_id = NoOption

C4_Witness ==
  \E a, b \in SessionIds :
    /\ sessions[a].selected_option_id # NoOption
    /\ sessions[a].state = "stable"
    /\ sessions[b].state = "explore_options"

\* C5: iteration_count never decreases; a successful iterate adds exactly 1
\* and leaves the state iterating; no other operation changes the count.
C5_IterationCountMonotonic ==
  [][\A sid \in SessionIds :
       /\ sessions'[sid].iteration_count >= sessions[sid].iteration_count
       /\ sessions'[sid].iteration_count # sessions[sid].iteration_count
            => SomeIterate(sid) /\ response' = "ok"
       /\ (SomeIterate(sid) /\ response' = "ok")
            => /\ sessions'[sid].iteration_count
                    = sessions[sid].iteration_count + 1
               /\ sessions'[sid].state = "iterating"]_vars

C5_Witness ==
  \E sid \in SessionIds :
    /\ sessions[sid].iteration_count = 1
    /\ sessions[sid].state = "committed"

\* ------------------------------------------------------------------------
\* Build-fix loop of the chat pipeline
\* ------------------------------------------------------------------------
LastEvent == events[Len(events)]

\* C6: a run invokes the fix stage at most 3 times and the validator at
\* most 4 times; the fix stage is invoked only directly after a validation
\* of the current files that failed.
C6_BoundedFixLoop ==
  /\ fix_invocations <= 3
  /\ validations <= 4
  /\ pc = "fix_agent"
       => /\ ~build_result.success
          /\ build_result = validate_build(updated_files)
          /\ validations = fix_invocations + 1
          /\ LastEvent = sse_stage_change("fix_agent")
          /\ events[Len(events) - 1]
               = sse_build_status(FALSE, build_result.errors)

C6_Witness ==
  /\ pc = "returned"
  /\ fix_invocations = 3
  /\ validations = 4

PipelineVersions == {i \in 1..Len(versions) : versions[i].source = "run_pipeline"}

\* C7: a version persisted by run_pipeline has build_status success exactly
\* when validate_build of its files succeeds, and its build log is the
\* error list of that validation; the run reaches the save step only with
\* the result of validating the files it is about to save.
C7_StatusReflectsLastValidation ==
  /\ \A i \in PipelineVersions :
       /\ versions[i].build_status = "success"
            <=> validate_build(versions[i].files).success
       /\ versions[i].build_status \in {"success", "failed"}
       /\ versions[i].build_log = validate_build(versions[i].files).errors
  /\ pc = "save" => build_result = validate_build(updated_files)

\* A run whose second fix attempt raised and whose version was saved.
C7_Witness ==
  /\ pc = "returned"
  /\ fix_invocations = 2
  /\ LastEvent.event = "done"
  /\ LastEvent.version_id = Len(versions)
  /\ events[Len(events) - 1] = sse_error
  /\ versions[Len(versions)].build_status = "failed"

Exhausted == fix_invocations = MAX_FIX_RETRIES /\ ~build_result.success

FailedVersion ==
  ProjectVersion(run_project, "failed", build_result.errors, updated_files,
                 "run_pipeline", NoId)

SomeFixPreview(k) ==
  \E errors \in ErrorReports, html \in FixedHtml, tracked \in BOOLEAN,
     serviceOk \in BOOLEAN :
    fix_preview(k[1], k[2], errors, html, tracked, serviceOk)

\* C9: fix_preview on an entry whose fix_attempts is 2 or more raises
\* 'Max fix attempts reached' without calling the reasoning service and
\* leaves the entry as it is.
C9_CeilingRejects ==
  [][\A k \in CacheKeys :
       (cache[k].present /\ cache[k].meta_json.fix_attempts >= 2
          /\ SomeFixPreview(k))
         => /\ reply' = Reply("fix_preview", "Max fix attempts reached",
                               EmptyText, FALSE)
            /\ cache' = cache
            /\ fix_calls' = fix_calls]_vars

C9_Witness ==
  /\ reply = Reply("fix_preview", "Max fix attempts reached", EmptyText, FALSE)
  /\ \E k \in CacheKeys :
       /\ cache[k].present
       /\ cache[k].meta_json.fix_attempts = 2
       /\ fix_calls[k] = 2

\* C10: every fix_preview that calls the reasoning service adds exactly 1
\* to the entry's fix_attempts, also when the call raises or the reply has
\* no index.html, so that one entry sees at most 2 reasoning-service calls.
C10_EveryAttemptCounts ==
  /\ [][\A k \in CacheKeys :
          (SomeFixPreview(k) /\ reply'.called)
            => cache'[k].meta_json.fix_attempts
                 = cache[k].meta_json.fix_attempts + 1]_vars
  /\ [](\A k \in CacheKeys : fix_calls[k] <= 2)

\* ------------------------------------------------------------------------
\* Preview cache expiry
\* ------------------------------------------------------------------------
SomePreviewOption(k) ==
  \E html \in PreviewHtml, serviceOk \in BOOLEAN :
    preview_option(k[1], k[2], html, serviceOk)

\* The row of key k is stored and its expires_at has passed.
Expired(k) == cache[k].present /\ now > cache[k].expires_at
\* The row of key k is stored and its expires_at has not passed.
Unexpired(k) == cache[k].present /\ now <= cache[k].expires_at

\* C11: a read made after an entry's expires_at returns no stored content,
\* as for a key without entry: get_cached_preview returns None, the preview
\* route answers 'Preview not ready', and preview_option does not answer
\* from the cache but regenerates as on a miss.
C11_ExpiredReadsAsMiss ==
  /\ [](\A k \in CacheKeys : Expired(k) => get_cached_preview(k) = EmptyText)
  /\ [][\A k \in CacheKeys :
          Expired(k) =>
            /\ get_preview_option(k[1], k[2])
                 => reply' = Reply("get_preview_option", "Preview not ready",
                                   EmptyText, FALSE)
            /\ SomePreviewOption(k)
                 => /\ reply'.called
                       \/ reply'.error \in {"Session not found",
                                            "Option not found"}
                    /\ reply'.error = ""
                         => cache'[k].expires_at = now + PREVIEW_TTL]_vars

C11_Witness ==
  /\ \A k \in CacheKeys : Expired(k)
  /\ reply = Reply("get_preview_option", "Preview not ready", EmptyText, FALSE)

\* C12: fix_preview on a key whose entry has expired behaves as on a key
\* without entry: it raises 'No cached preview to fix', makes no
\* reasoning-service call and leaves the expired entry as it is.
C12_FixTreatsExpiredAsAbsent ==
  [][\A k \in CacheKeys :
       (Expired(k) /\ SomeFixPreview(k))
         => /\ reply' = Reply("fix_preview", "No cached preview to fix",
                               EmptyText, FALSE)
            /\ cache' = cache
            /\ fix_calls' = fix_calls]_vars

\* C13: preview_option on a miss (no entry or an expired one) of an existing
\* session and option calls the reasoning service and, when it succeeds,
\* stores the generated text under the key with expires_at 30 minutes ahead
\* and a fix-attempt counter that reads 0, whatever the counter of the row
\* it writes over; a failed one stores nothing; on a hit it answers the
\* stored text without a call and leaves the cache unchanged.
C13_MissStoresFreshEntry ==
  [][\A k \in CacheKeys :
       SomePreviewOption(k) =>
         IF Unexpired(k)
           THEN /\ reply' = Reply("preview_option", "", cache[k].value_text,
                                  FALSE)
                /\ cache' = cache
           ELSE /\ (k[1] \in SessionIds /\ k[2] \in sessions[k[1]].options)
                     => reply'.called
                /\ reply'.error = ""
                     => /\ reply'.called
                        /\ cache' = [cache EXCEPT ![k] =
                              KVCache(reply'.body, now + PREVIEW_TTL, 0,
                                      <<>>)]
                /\ reply'.error # "" => cache' = cache]_vars

C13_Witness ==
  /\ replaced = MAX_FIX_ATTEMPTS
  /\ \E k \in CacheKeys :
       /\ cache[k].meta_json.fix_attempts = 0
       /\ cache[k].expires_at = now + PREVIEW_TTL
       /\ reply = Reply("preview_option", "", cache[k].value_text, TRUE)

\* ------------------------------------------------------------------------
\* Versions and failed exploration requests
\* ------------------------------------------------------------------------
\* The newest version of project p.
LatestVersion(p) ==
  LET own == {i \in 1..Len(versions) : versions[i].project_id = p}
  IN CHOOSE i \in own : \A j \in own : j <= i

\* C16: every operation that creates a version sets the owning project's
\* current_version_id to the new version in the same commit: a step adds at
\* most one version and then the pointer of its project names it, and in
\* every committed state the pointer of a project names its newest version.
C16_PointerFollowsNewVersion ==
  /\ [](\A p \in Projects :
          projects[p].current_version_id = LatestVersion(p))
  /\ [][Len(versions') # Len(versions)
          => /\ Len(versions') = Len(versions) + 1
             /\ SubSeq(versions', 1, Len(versions)) = versions
             /\ projects'[versions'[Len(versions')].project_id]
                  .current_version_id = Len(versions')]_vars

C16_Witness ==
  /\ Len(versions) = 3
  /\ versions[2].source \in {"select_option", "iterate"}
  /\ versions[3].source = "rollback_to_version"
  /\ versions[3].files = versions[1].files
  /\ projects[versions[3].project_id].current_version_id = 3

\* C19: a select_option, iterate or explore that fails (session not found,
\* no current version, the reasoning service raising or replying what cannot
\* be parsed) leaves the committed state as it was: sessions with their
\* state, selected option, iteration count, ledger and options, the
\* projects' pointers, the versions and the memory notes.
C19_FailureChangesNothing ==
  [][response' # "ok"
       => UNCHANGED <<sessions, projects, versions, notes, preferences>>]_vars

C19_Witness ==
  /\ response = ServiceError
  /\ Len(versions) = 3
  /\ \E sid \in SessionIds :
       /\ sessions[sid].state = "iterating"
       /\ sessions[sid].selected_option_id # NoOption

\* C20: select_option with an option_id that is not an option of the session
\* is rejected and changes nothing, so that a non-null selected_option_id
\* always names an option of its session.
C20_SelectedOptionExists ==
  \A sid \in SessionIds :
    sessions[sid].selected_option_id # NoOption
      => sessions[sid].selected_option_id \in sessions[sid].options

\* ------------------------------------------------------------------------
\* Event stream of a chat pipeline run
\* ------------------------------------------------------------------------
DoneEvents == {i \in 1..Len(events) : events[i].event = "done"}

\* C15: the event stream of a run holds exactly one done event, and it is
\* the last event, on every path: a run that has ended has yielded done
\* once, as its last event, and a run under way has not yielded it.
C15_DoneOnceAndLast ==
  /\ pc = "returned" => DoneEvents = {Len(events)}
  /\ pc \notin {"idle", "returned"} => DoneEvents = {}

\* A run ended by the route's handler: the reads before run_pipeline raised.
C15_Witness ==
  /\ pc = "returned"
  /\ events = <<sse_error, sse_done(NoId)>>
  /\ runs > 0

\* C17: every tool-call loop and retry loop is bounded by a counter, so that
\* a run whose calls all return makes a bounded number of reasoning-service
\* calls and ends with done whatever the service replies.
C17_RunEmitsDone ==
  (pc \notin {"idle", "returned"}) ~> (pc = "returned")

\* ------------------------------------------------------------------------
\* The tool loop of a stage call, and concurrent chat requests
\* ------------------------------------------------------------------------

\* C18: a call of _call_openai_with_tools runs at most 3 tool rounds and
\* makes at most 4 calls of the reasoning service (the first and one per
\* round), and once 3 rounds are done no further round is run, whatever the
\* service replies.
C18_ToolRoundsBounded ==
  /\ rounds <= MAX_TOOL_ROUNDS
  /\ service_calls <= MAX_TOOL_ROUNDS + 1
  /\ service_calls <= rounds + 1
  /\ (rounds = MAX_TOOL_ROUNDS /\ msg_tool_calls) => ~ENABLED StageToolRound

\* The service asked for tools in every reply of a stage call, and the
\* call stands after its third round and fourth service call.
C18_Witness ==
  /\ explore_stage \in {"A", "B"}
  /\ rounds = MAX_TOOL_ROUNDS
  /\ service_calls = MAX_TOOL_ROUNDS + 1
  /\ msg_tool_calls

C21_MemoryFailureSwallowed ==
  [][(memory_raised' /\ ~memory_raised) => explore_stage' # "idle"]_vars

\* ------------------------------------------------------------------------
\* Runs of the chat pipeline that end before validation
\* ------------------------------------------------------------------------
ErrorEvents == {i \in 1..Len(events) : events[i].event = "error"}

\* C22: a run of the chat pipeline that ends in the intent, responding,
\* planner or builder stage (a stage call failed, the intent is a question,
\* the plan has no files, the builder returned no operations) ends with a
\* done event without version id after at most one error event, and leaves
\* versions and projects as they were; a version is created only by a run
\* that validated files built with at least one file operation.
C22_VersionOnlyAfterValidation ==
  /\ [][(pc \in {"intent_parser", "planner", "builder"} /\ pc' = "returned")
         => /\ UNCHANGED <<versions, projects>>
            /\ events'[Len(events')] = sse_done(NoId)
            /\ Cardinality({i \in 1..Len(events') :
                              events'[i].event = "error"}) <= 1]_vars
  /\ [][versions' # versions
         => pc = "save" /\ validations >= 1 /\ run_file_ops # <<>>]_vars

\* A run that the builder ended without operations, after an earlier run
\* of the project had created a version.
C22_Witness ==
  /\ pc = "returned"
  /\ validations = 0
  /\ Len(events) >= 2
  /\ events[Len(events) - 1] = sse_token
  /\ events[Len(events) - 2] = sse_stage_change("builder")
  /\ Len(versions) > Len(ProjectSeq)

\* ------------------------------------------------------------------------
\* The build validator as a function of the file map
\* ------------------------------------------------------------------------

\* What the texts that the content tokens stand for contain.
HasDoctypeOrHtmlTag(content) == Props(content).html
HasHeadSection(content) == Props(content).head /\ content # "HTML_HEADER"
HasBodySection(content) == Props(content).body

WellFormed(files) ==
  /\ files["index.html"] # Absent
  /\ HasDoctypeOrHtmlTag(files["index.html"])
  /\ HasHeadSection(files["index.html"])
  /\ HasBodySection(files["index.html"])
  /\ \A i \in 1..Len(Props(files["index.html"]).refs) :
        lstrip_dot_slash(Props(files["index.html"]).refs[i])
          \in FilePaths(files)

\* C23: validate_build returns success = true exactly when index.html is
\* present, has a doctype or html tag, a head section and a body section,
\* and every local src/href reference in it names a path of the file map.
C23_SuccessIffWellFormed ==
  call_args.fn = "validate_build"
    => (call_result.value.success <=> WellFormed(call_args.files))

\* ------------------------------------------------------------------------
\* Outputs of the Generate, Branch and Map stages
\* ------------------------------------------------------------------------

\* C24: every version that select_option or iterate made the current
\* version of a project holds a root document index.html with non-empty
\* content, whatever the Generate or Iterate stage replied.
C24_CurrentVersionHasRootDocument ==
  \A p \in Projects :
    LET v == versions[projects[p].current_version_id] IN
      v.source \in {"select_option", "iterate"}
        => v.files["index.html"] \notin {Absent, EmptyText}

\* C25: the list of branches that explore takes from the Branch stage and
\* passes on to the Map stage has between 2 and 6 branches, and every
\* branch in it assigns exactly one value to each open dimension.
C25_BranchesWithinBounds ==
  call_args.fn = "synthesize_branches"
    => /\ Len(call_result.value) \in 2..6
       /\ \A i \in 1..Len(call_result.value) :
            \A d \in Dimensions : call_result.value[i][d] = 1

\* C26: of the options that explore persists for a session, exactly one
\* has is_recommended = true, whatever the Map stage reply holds.
C26_ExactlyOneRecommended ==
  call_args.fn = "map_options"
    => Cardinality({i \in 1..Len(call_result.value) :
                      call_result.value[i].is_recommended}) = 1

\* ------------------------------------------------------------------------
\* Stored memories
\* ------------------------------------------------------------------------

\* C27: memory notes are append-only: every stored note, whether written by
\* the exploration flow or by the extraction after a build, stays stored
\* with the content it has.
C27_NotesAppendOnly ==
  [][/\ \A i \in 1..Len(notes) : i <= Len(notes') /\ notes'[i] = notes[i]
     /\ \A i \in 1..Len(memories) :
          memories[i] # DeletedMemory
            => i <= Len(memories') /\ memories'[i] = memories[i]]_vars

\* C28: whatever the interleaving of finish_exploration calls for a
\* project, the project has at most one UserPreference row, so that the
\* SELECT of a later finish call does not fail.
C28_OnePreferenceRowPerProject ==
  \A p \in Projects : Cardinality(PreferenceRowsOf(p)) <= 1

\* C29: when no stored note matches the query and the type filter of a
\* search-memory tool call, the tool returns the sentinel
\* 'No relevant memories found', and not the text of notes that do not
\* match.
C29_NoMatchReturnsSentinel ==
  (/\ call_args.fn = "_search_memory_for_tool"
   /\ \A i \in 1..Len(call_args.stored) :
        ~(/\ call_args.filter_type \in {"all", call_args.stored[i].type}
          /\ \/ call_args.stored[i].terms \cap call_args.query # {}
             \/ call_args.query = {}))
    => /\ call_result.value.text = NoRelevantMemories
       /\ call_result.value.entries = <<>>

\* ------------------------------------------------------------------------
\* What the preview requests write
\* ------------------------------------------------------------------------

\* C30: a preview_option, fix_preview or preview read changes at most the
\* cache entry of one key and nothing else of the stored state: no
\* session, version, project pointer, note or preference changes.
C30_PreviewTouchesOnlyItsEntry ==
  [][<<cache, fix_calls, reply, replaced>>'
       # <<cache, fix_calls, reply, replaced>>
       => /\ UNCHANGED <<sessions, projects, versions, notes, preferences>>
          /\ Cardinality({k \in CacheKeys : cache'[k] # cache[k]}) <= 1]_vars

\* fix_preview has stored a fixed preview while both cache keys hold an
\* entry and the session exists.
C30_Witness ==
  /\ reply.op = "fix_preview"
  /\ reply.error = ""
  /\ Len(sessions) > 0
  /\ \A k \in CacheKeys : cache[k].present

\* ------------------------------------------------------------------------
\* Style tendency of the user feel profile
\* ------------------------------------------------------------------------
Aggregated == call_result.fn = "aggregate_user_feel_profile"

\* The mean of the ratios (in thousandths) compared with a bound in
\* hundredths.
MeanAtLeast(ratios, hundredths) ==
  Sum(ratios) * 100 >= hundredths * 1000 * Len(ratios)
MeanAtMost(ratios, hundredths) ==
  Sum(ratios) * 100 <= hundredths * 1000 * Len(ratios)

\* C31: over notes with at least one movement model with accel > 0, the
\* style tendency is tight when the mean drag/accel ratio is >= 0.85,
\* floaty when it is <= 0.5 and arcade otherwise.
C31_StyleFromMeanRatio ==
  (Aggregated /\ DragRatios(call_args.notes) # <<>>) =>
    LET ratios == DragRatios(call_args.notes) IN
      call_result.value.style_tendency =
        (IF MeanAtLeast(ratios, 85) THEN "tight"
         ELSE IF MeanAtMost(ratios, 50) THEN "floaty"
         ELSE "arcade")

\* The ratios 0.9 and 0.95 give tight.
C31_Witness ==
  /\ Aggregated
  /\ DragRatios(call_args.notes) = <<900, 950>>
  /\ call_result.value.style_tendency = "tight"

\* C39: the style tendency of the returned profile is null, tight, floaty
\* or arcade.
C39_StyleTendencyInRange ==
  Aggregated =>
    call_result.value.style_tendency \in {None, "tight", "floaty", "arcade"}

\* ------------------------------------------------------------------------
\* Sessions and the project of the request
\* ------------------------------------------------------------------------
OwnerOf(sid) == sessions[sid].project_id

\* C32: select_option, iterate and finish_exploration act only on a
\* session of the project of the request: every version and every note
\* written for a session belongs to the project that owns the session, and
\* a session changes only together with a version or a note written under
\* its own project.
C32_SessionOfRequestProject ==
  /\ [](\A i \in DOMAIN versions :
          versions[i].session # NoId =>
            versions[i].project_id = OwnerOf(versions[i].session))
  /\ [](\A i \in DOMAIN notes :
          notes[i].source_session_id # NoId =>
            notes[i].project_id = OwnerOf(notes[i].source_session_id))
  /\ [][\A sid \in DOMAIN sessions :
          sessions'[sid] # sessions[sid] =>
            \/ \E i \in DOMAIN versions' \ DOMAIN versions :
                 /\ versions'[i].session = sid
                 /\ versions'[i].project_id = OwnerOf(sid)
            \/ \E i \in DOMAIN notes' \ DOMAIN notes :
                 /\ notes'[i].source_session_id = sid
                 /\ notes'[i].project_id = OwnerOf(sid)]_vars

\* ------------------------------------------------------------------------
\* Versions recorded as successful builds
\* ------------------------------------------------------------------------

\* C33: every version recorded with build_status success holds a file set
\* that passes validate_build, whichever request created it.
C33_SuccessVersionsValidate ==
  \A i \in DOMAIN versions :
    versions[i].build_status = "success" =>
      validate_build(versions[i].files).success

\* ------------------------------------------------------------------------
\* Files of an iterated version
\* ------------------------------------------------------------------------
IteratedCall == call_result.fn = "iterate"

\* C38: the version iterate creates has exactly the paths of the version
\* that was current; a path the reply does not name keeps its content, a
\* path the reply names gets the content of the reply, and a path only the
\* reply names is not added.
C38_IterateKeepsPathSet ==
  IteratedCall =>
    LET files == call_args.files
        modifications == call_args.modifications
        new_files == call_result.value
    IN /\ FilePaths(new_files) = FilePaths(files)
       /\ \A fp \in FilePaths(files) :
            new_files[fp] = (IF modifications[fp] = Absent
                               THEN files[fp] ELSE modifications[fp])

\* An iterate over index.html alone whose reply rewrites index.html and
\* names script.js: the new version holds the new index.html only.
C38_Witness ==
  /\ IteratedCall
  /\ FilePaths(call_args.files) = {"index.html"}
  /\ FilePaths(call_args.modifications) = {"index.html", "script.js"}
  /\ call_result.value["index.html"] = "HTML_NOHEAD"
  /\ call_result.value["script.js"] = Absent

\* ------------------------------------------------------------------------
\* Concurrent requests on one project and on one session
\* ------------------------------------------------------------------------
Pointer(p) == projects[p].current_version_id

IterateVersions(sid) ==
  {i \in DOMAIN versions :
     versions[i].source = "iterate" /\ versions[i].session = sid}

\* C34: every version a chat run or an iterate commits is derived from the
\* version that is the project's current version at the moment of the
\* commit.
C34_NoLostUpdate ==
  [][/\ \A r \in Requests :
          (/\ requests[r].pc = "streaming"
           /\ requests'[r].pc = "done"
           /\ Len(versions') > Len(versions))
            => requests[r].base = Pointer(requests[r].project_id)
     /\ \A r \in Requests :
          (/\ iterating[r].pc = "generating"
           /\ iterating'[r].pc = "none"
           /\ Len(versions') > Len(versions))
            => iterating[r].base = Pointer(iterating[r].project_id)]_vars

\* C35: the iteration_count of a session is the number of iterate calls on
\* it that succeeded, and its ledger's open_questions holds one entry for
\* each of them.
C35_NoLostIteration ==
  \A sid \in SessionIds :
    /\ sessions[sid].iteration_count = Cardinality(IterateVersions(sid))
    /\ Len(sessions[sid].hypothesis_ledger.open_questions)
         = Cardinality(IterateVersions(sid))

\* ------------------------------------------------------------------------
\* Concurrent requests on one cache entry
\* ------------------------------------------------------------------------
FixApplied(r, k) ==
  /\ fixing[r].pc = "fixing"
  /\ fixing[r].cache_key = k
  /\ fixing'[r].pc = "none"
  /\ reply'.error = ""

\* C36: at most 2 fix_preview calls invoke the reasoning service for an
\* entry between two regenerations of it, and every fix applied to the
\* entry's content adds 1 to its fix_attempts.
C36_FixAttemptsCountFixes ==
  /\ [](\A k \in CacheKeys : fix_calls[k] <= MAX_FIX_ATTEMPTS)
  /\ [][\A r \in Requests, k \in CacheKeys :
          FixApplied(r, k)
            => cache'[k].meta_json.fix_attempts
                 = cache[k].meta_json.fix_attempts + 1]_vars

\* C37: every preview_option call whose generation produced a non-empty
\* index.html stores it under its key and returns it; the cache holds one
\* row per key.
C37_ConcurrentPreviewsSucceed ==
  [][\A r \in Requests :
       (previewing[r].pc = "adding" /\ previewing'[r].pc = "none")
         => /\ reply' = Reply("preview_option", "", previewing[r].html, TRUE)
            /\ cache'[previewing[r].cache_key].present
            /\ cache'[previewing[r].cache_key].value_text
                 = previewing[r].html]_vars

====
